---- MODULE Spec2Model ----
(***************************************************************************)
(* LF record core (pkg/lf/record.go): the record wire codec, the lazily    *)
(* cached derived fields, three-phase record construction and validation.  *)
(*                                                                         *)
(* Byte strings are sequences of integers 0..255.  A Go nil slice and an   *)
(* empty slice are both the empty sequence (the code only ever takes their *)
(* len()).  A 32-byte digest is modelled as an injective term: a tag       *)
(* (256, 257: not a byte), the length of the hashed stream and the stream  *)
(* itself, so that two digests are equal exactly when the same hash        *)
(* function was fed the same bytes.  Signatures, selector claims and       *)
(* proofs of work are short handles into the list `signed` of what has     *)
(* been signed so far (an ideal, unforgeable signature scheme).            *)
(***************************************************************************)
EXTENDS Integers, Sequences, FiniteSets, TLC

\* ------------------------------------------------------------ constants

recordBodyFlagHasCertificate == 1
RecordMaxSize == 65536
RecordWorkAlgorithmNone == 0
RecordWorkAlgorithmWharrgarbl == 1
\* Size of a Wharrgarbl proof of work (wharrgarbl.go).
WharrgarblOutputSize == 14
\* Size of a serialized selector (selector.go).
SelectorSize == 3

\* ------------------------------------------------------------ byte strings

RECURSIVE Rep(_, _)
\* n times b, built by doubling.
Rep(b, n) ==
    IF n <= 0 THEN <<>>
    ELSE IF n = 1 THEN <<b>>
    ELSE LET half == Rep(b, n \div 2) IN
         half \o half \o (IF n % 2 = 1 THEN <<b>> ELSE <<>>)

Take(s, n) == SubSeq(s, 1, n)

Drop(s, n) == SubSeq(s, n + 1, Len(s))

Min(a, b) == IF a < b THEN a ELSE b

RECURSIVE Pow2(_)
Pow2(n) == IF n = 0 THEN 1 ELSE 2 * Pow2(n - 1)

RECURSIVE Concat(_)
\* The concatenation of a sequence of byte strings.
Concat(ss) ==
    IF Len(ss) = 0 THEN <<>>
    ELSE IF Len(ss) = 1 THEN ss[1]
    ELSE Concat(Take(ss, Len(ss) \div 2)) \o Concat(Drop(ss, Len(ss) \div 2))

RECURSIVE RunEnd(_, _, _, _)
\* The last position of the run of s that starts at i, which ends between lo
\* and hi: s[i..lo] is one run.
RunEnd(s, i, lo, hi) ==
    IF lo = hi THEN lo
    ELSE LET mid == (lo + hi + 1) \div 2 IN
         IF SubSeq(s, lo, mid) = Rep(s[i], mid - lo + 1)
         THEN RunEnd(s, i, mid, hi)
         ELSE RunEnd(s, i, lo, mid - 1)

RECURSIVE PackFrom(_, _)
\* The runs of s from position i on: <<byte, count, byte, count, ...>>.
PackFrom(s, i) ==
    IF i > Len(s) THEN <<>>
    ELSE LET j == RunEnd(s, i, i, Len(s)) IN
         <<s[i], j - i + 1>> \o PackFrom(s, j + 1)

\* The states keep a long byte string as its runs, after a mark that is no
\* byte: a record of RecordMaxSize bytes takes a few numbers then.
Pack(s) == IF Len(s) < 1024 THEN s ELSE <<-2>> \o PackFrom(s, 1)

\* The byte string Pack was given.
Unpack(p) ==
    IF Len(p) > 0 /\ p[1] = -2
    THEN Concat([k \in 1..((Len(p) - 1) \div 2) |-> Rep(p[2 * k], p[2 * k + 1])])
    ELSE p

\* binary.BigEndian.PutUint32
PutUint32(x) ==
    << (x \div 16777216) % 256, (x \div 65536) % 256, (x \div 256) % 256, x % 256 >>

\* binary.BigEndian.Uint32
Uint32(b) == ((b[1] * 256 + b[2]) * 256 + b[3]) * 256 + b[4]

\* binary.BigEndian.PutUint64 (timestamps of the model are below 2^28)
PutUint64(x) == <<0, 0, 0, 0>> \o PutUint32(x)

RECURSIVE writeUVarint(_)
\* The unsigned LEB128 encoding of x: seven bits per byte, low bits first,
\* the high bit set on every byte but the last.
writeUVarint(x) ==
    IF x < 128 THEN <<x>> ELSE <<128 + (x % 128)>> \o writeUVarint(x \div 128)

\* ------------------------------------------------------------ readers
\* A reader is a byte string buf and the number pos of bytes consumed.

\* byteAndArrayReader.ReadByte
ReadByte(buf, pos) ==
    IF pos < Len(buf)
    THEN [b |-> buf[pos + 1], pos |-> pos + 1, err |-> "nil"]
    ELSE [b |-> 0, pos |-> pos, err |-> "EOF"]

\* A uint64 x is kept in three parts, x = v + 2^28 * m + 2^56 * h with v and
\* m below 2^28 and h below 2^8.
Zero64 == [v |-> 0, m |-> 0, h |-> 0]

\* x | uint64(b) << s for a b below 128 and s a multiple of 7 (the bits of x
\* from s on are still zero); bits shifted beyond 64 are lost.
OrShifted(x, b, s) ==
    IF s < 28 THEN [x EXCEPT !.v = @ + b * Pow2(s)]
    ELSE IF s < 56 THEN [x EXCEPT !.m = @ + b * Pow2(s - 28)]
    ELSE IF s = 56 THEN [x EXCEPT !.h = @ + b]
    ELSE IF s = 63 THEN [x EXCEPT !.h = @ + (b % 2) * 128]
    ELSE x

\* x > n for a uint64 x and an n below 2^28.
Exceeds(x, n) == x.m > 0 \/ x.h > 0 \/ x.v > n

RECURSIVE ReadUvarintLoop(_, _, _, _, _)
ReadUvarintLoop(buf, pos, x, s, i) ==
    LET rb == ReadByte(buf, pos) IN
    IF rb.err # "nil"
    THEN [v |-> x.v, m |-> x.m, h |-> x.h, pos |-> rb.pos, err |-> rb.err]
    ELSE IF rb.b < 128
         THEN IF i > 9 \/ (i = 9 /\ rb.b > 1)
              THEN [v |-> x.v, m |-> x.m, h |-> x.h, pos |-> rb.pos, err |-> "overflow"]
              ELSE [v |-> OrShifted(x, rb.b, s).v, m |-> OrShifted(x, rb.b, s).m,
                    h |-> OrShifted(x, rb.b, s).h, pos |-> rb.pos, err |-> "nil"]
         ELSE ReadUvarintLoop(buf, rb.pos, OrShifted(x, rb.b % 128, s), s + 7, i + 1)

\* binary.ReadUvarint: the value read so far is returned with an error too.
\* The value is v when m and h are zero.
ReadUvarint(buf, pos) == ReadUvarintLoop(buf, pos, Zero64, 0, 0)

\* io.ReadFull into a fresh zeroed buffer of n bytes: a short read fills
\* what there is, leaves the rest zero and reports EOF (nothing read) or
\* ErrUnexpectedEOF.
ReadFull(buf, pos, n) ==
    LET avail == Len(buf) - pos IN
    IF avail >= n
    THEN [data |-> SubSeq(buf, pos + 1, pos + n), pos |-> pos + n, err |-> "nil"]
    ELSE [data |-> SubSeq(buf, pos + 1, Len(buf)) \o Rep(0, n - avail),
          pos |-> Len(buf),
          err |-> IF avail = 0 THEN "EOF" ELSE "ErrUnexpectedEOF"]

\* io.CopyN(ioutil.Discard, rr, n): consumes n bytes or what is left.
CopyNDiscard(buf, pos, n) == Min(pos + n, Len(buf))

\* ------------------------------------------------------------ hashes

\* Shandwich256 as an injective digest term.
Shandwich256(stream) == <<256, Len(stream)>> \o stream

\* sha3.Sum256 as an injective digest term, separated from Shandwich256.
Sha3(stream) == <<257, Len(stream)>> \o stream

\* ------------------------------------------------------------ selectors
\* Selectors (selector.go).  A selector is its SelectorSize wire
\* bytes: the key derived from the plain text name, the masked ordinal and
\* the claim signature (a handle into `signed`).

\* The zero Selector that make([]Selector, n) allocates.
ZeroSelector == Rep(0, SelectorSize)

\* Selector.Bytes / Selector.MarshalTo
SelectorBytes(sel) == sel

\* Selector.Key: the database key, name key and masked ordinal.
SelectorKey(sel) == Take(sel, 2)

\* Selector.UnmarshalFrom
SelectorUnmarshalFrom(buf, pos) == ReadFull(buf, pos, SelectorSize)

\* Selector.VerifyClaim: the claim is the signature, by the key of the name,
\* of the hash and the masked ordinal.
SelectorVerifyClaim(sel, hash, log) ==
    /\ sel[3] \in 1..Len(log)
    /\ log[sel[3]] = <<"claim", SelectorKey(sel), hash>>

\* ------------------------------------------------------------ record body

\* new(Record): every field zero.
ZeroRecord ==
    [MaskedValue |-> <<>>, Owner |-> <<>>, Certificate |-> <<>>, Links |-> <<>>,
     Timestamp |-> 0, Selectors |-> <<>>, Work |-> <<>>,
     WorkAlgorithm |-> RecordWorkAlgorithmNone, Signature |-> <<>>,
     data |-> <<>>, hash |-> <<>>, id |-> <<>>]

\* The link count read from the wire times 32, as the decoder computes it:
\* l *= 32 in 64 bits.
LinkBytes(l) ==
    [v |-> (l.v % 8388608) * 32,
     m |-> (l.m % 8388608) * 32 + (l.v \div 8388608),
     h |-> ((l.h % 8) * 32 + (l.m \div 8388608)) % 256]

\* The steps of a decoder pass a record st = [r, pos, err] along: the Record
\* as assigned so far, the reader's position and the error to return.  A
\* step after an error does nothing, as the code has returned by then.

\* recordBody.unmarshalFrom, the masked value.  The error of reading the
\* flags byte before it is not checked (the flags are then 0).
unmarshalValue(r, buf, pos) ==
    LET l == ReadUvarint(buf, pos) IN
    IF l.err # "nil" THEN [r |-> r, pos |-> l.pos, err |-> l.err]
    ELSE IF Exceeds(l, RecordMaxSize)
    THEN [r |-> r, pos |-> l.pos, err |-> "ErrorRecordInvalid"]
    ELSE IF l.v > 0
    THEN LET m == ReadFull(buf, l.pos, l.v) IN
         [r |-> [r EXCEPT !.MaskedValue = m.data], pos |-> m.pos, err |-> m.err]
    ELSE [r |-> [r EXCEPT !.MaskedValue = <<>>], pos |-> l.pos, err |-> "nil"]

\* recordBody.unmarshalFrom, the owner.
unmarshalOwner(st, buf) ==
    IF st.err # "nil" THEN st
    ELSE LET l == ReadUvarint(buf, st.pos) IN
    IF l.err # "nil" THEN [st EXCEPT !.pos = l.pos, !.err = l.err]
    ELSE IF Exceeds(l, RecordMaxSize)
    THEN [st EXCEPT !.pos = l.pos, !.err = "ErrorRecordInvalid"]
    ELSE IF l.v > 0
    THEN LET o == ReadFull(buf, l.pos, l.v) IN
         [r |-> [st.r EXCEPT !.Owner = o.data], pos |-> o.pos, err |-> o.err]
    ELSE [r |-> [st.r EXCEPT !.Owner = <<>>], pos |-> l.pos, err |-> "nil"]

\* recordBody.unmarshalFrom, the certificate.
unmarshalCertificate(st, flags, buf) ==
    IF st.err # "nil" THEN st
    ELSE IF (flags % 2) = recordBodyFlagHasCertificate
    THEN LET c == ReadFull(buf, st.pos, 32) IN
         IF c.err # "nil" THEN [st EXCEPT !.pos = c.pos, !.err = c.err]
         ELSE [r |-> [st.r EXCEPT !.Certificate = c.data], pos |-> c.pos, err |-> "nil"]
    ELSE [st EXCEPT !.r.Certificate = <<>>]

\* recordBody.unmarshalFrom, the links and the timestamp: a failed read of
\* the link bytes is not checked, and the timestamp is assigned even when
\* its read fails.
unmarshalLinks(st, buf) ==
    IF st.err # "nil" THEN st
    ELSE LET l == ReadUvarint(buf, st.pos) IN
    IF l.err # "nil" THEN [st EXCEPT !.pos = l.pos, !.err = l.err]
    ELSE IF Exceeds(l, 0) /\ Exceeds(LinkBytes(l), RecordMaxSize)
    THEN [st EXCEPT !.pos = l.pos, !.err = "ErrorRecordInvalid"]
    ELSE LET lk == IF Exceeds(l, 0) THEN ReadFull(buf, l.pos, LinkBytes(l).v)
                   ELSE [data |-> <<>>, pos |-> l.pos, err |-> "nil"]
             ts == ReadUvarint(buf, lk.pos)
         IN  [r |-> [st.r EXCEPT !.Links = lk.data, !.Timestamp = ts.v],
              pos |-> ts.pos, err |-> ts.err]

\* recordBody.unmarshalFrom: the body fields of r read from buf at pos.  The
\* fields assigned before an error stay assigned.
unmarshalFrom(r, buf, pos) ==
    LET f == ReadByte(buf, pos) IN
    unmarshalLinks(
        unmarshalCertificate(
            unmarshalOwner(unmarshalValue(r, buf, f.pos), buf), f.b, buf), buf)

\* recordBody.marshalTo: the bytes written.
marshalTo(r) ==
    LET hasCert == Len(r.Certificate) = 32
        linkCount == Len(r.Links) \div 32
    IN  <<IF hasCert THEN recordBodyFlagHasCertificate ELSE 0>>
        \o writeUVarint(Len(r.MaskedValue)) \o r.MaskedValue
        \o writeUVarint(Len(r.Owner)) \o r.Owner
        \o (IF hasCert THEN r.Certificate ELSE <<>>)
        \o (IF Len(r.Links) >= 32
            THEN writeUVarint(linkCount) \o Take(r.Links, linkCount * 32)
            ELSE <<0>>)
        \o writeUVarint(r.Timestamp)

\* recordBody.sizeBytes
sizeBytes(r) == Len(marshalTo(r))

\* recordBody.signingHash
signingHash(r) ==
    Shandwich256(Shandwich256(r.MaskedValue) \o <<0>> \o r.Owner \o <<0>>
                 \o r.Certificate \o <<0>> \o r.Links \o <<0>>
                 \o PutUint64(r.Timestamp) \o <<0>>)

\* ------------------------------------------------------------ Record codec

\* Record.UnmarshalFrom, the selector count and the new Selectors slice.
unmarshalSelectorCount(st, buf) ==
    IF st.err # "nil" THEN st
    ELSE LET c == ReadUvarint(buf, st.pos) IN
    IF c.err # "nil" THEN [st EXCEPT !.pos = c.pos, !.err = c.err]
    ELSE IF Exceeds(c, RecordMaxSize \div 64)
    THEN [st EXCEPT !.pos = c.pos, !.err = "ErrorRecordInvalid"]
    ELSE [r |-> [st.r EXCEPT !.Selectors = Rep(ZeroSelector, c.v)], pos |-> c.pos,
          err |-> "nil"]

RECURSIVE unmarshalSelectors(_, _, _)
\* The loop of Record.UnmarshalFrom over the selectors i..Len(r.Selectors).
unmarshalSelectors(st, buf, i) ==
    IF st.err # "nil" \/ i > Len(st.r.Selectors) THEN st
    ELSE LET sl == SelectorUnmarshalFrom(buf, st.pos) IN
         unmarshalSelectors([r |-> [st.r EXCEPT !.Selectors[i] = sl.data],
                             pos |-> sl.pos, err |-> sl.err], buf, i + 1)

\* Record.UnmarshalFrom, the work: Work is assigned for Wharrgarbl only.
unmarshalWork(st, buf) ==
    IF st.err # "nil" THEN st
    ELSE LET a == ReadByte(buf, st.pos) IN
    IF a.err # "nil" THEN [st EXCEPT !.pos = a.pos, !.err = a.err]
    ELSE IF a.b = RecordWorkAlgorithmWharrgarbl
    THEN LET w == ReadFull(buf, a.pos, WharrgarblOutputSize) IN
         IF w.err # "nil" THEN [st EXCEPT !.pos = w.pos, !.err = w.err]
         ELSE [r |-> [st.r EXCEPT !.Work = w.data, !.WorkAlgorithm = a.b],
               pos |-> w.pos, err |-> "nil"]
    ELSE IF a.b # RecordWorkAlgorithmNone
    THEN [st EXCEPT !.pos = a.pos, !.err = "ErrorRecordUnsupportedAlgorithm"]
    ELSE [st EXCEPT !.r.WorkAlgorithm = a.b, !.pos = a.pos]

\* Record.UnmarshalFrom, the signature: the cached data, hash and id are
\* dropped only here, after everything was read.
unmarshalSignature(st, buf) ==
    IF st.err # "nil" THEN st
    ELSE LET l == ReadUvarint(buf, st.pos) IN
    IF l.err # "nil" THEN [st EXCEPT !.pos = l.pos, !.err = l.err]
    ELSE IF Exceeds(l, RecordMaxSize)
    THEN [st EXCEPT !.pos = l.pos, !.err = "ErrorRecordInvalid"]
    ELSE LET sg == ReadFull(buf, l.pos, l.v) IN
         IF sg.err # "nil"
         THEN [r |-> [st.r EXCEPT !.Signature = sg.data], pos |-> sg.pos,
               err |-> sg.err]
         ELSE [r |-> [st.r EXCEPT !.Signature = sg.data, !.data = <<>>,
                                  !.hash = <<>>, !.id = <<>>],
               pos |-> sg.pos, err |-> "nil"]

\* A skip that discards deadLen bytes after the five already read.
skipDeadWhole(buf, pos, deadLen) ==
    IF deadLen >= 5 THEN CopyNDiscard(buf, pos, deadLen) ELSE pos

\* Record.UnmarshalFrom on a tombstone: the position of the reader after
\* the rest of a dead record of deadLen bytes has been discarded.
skipDead(buf, pos, deadLen) ==
    IF deadLen >= 5 THEN CopyNDiscard(buf, pos, deadLen - 5) ELSE pos

\* Record.UnmarshalFrom after a first byte of 0xff.
unmarshalDead(r, buf, pos) ==
    LET d == ReadFull(buf, pos, 4) IN
    IF d.err # "nil" THEN [r |-> r, pos |-> d.pos, err |-> d.err]
    ELSE [r |-> r, pos |-> skipDead(buf, d.pos, Uint32(d.data)),
          err |-> "ErrorRecordMarkedIgnore"]

\* A decoder that takes every first byte but 0xff for a version it knows.
UnmarshalFromAnyVersion(r, buf, pos) ==
    LET h == ReadByte(buf, pos) IN
    IF h.err # "nil" THEN [r |-> r, pos |-> h.pos, err |-> h.err]
    ELSE IF h.b = 255 THEN unmarshalDead(r, buf, h.pos)
    ELSE unmarshalSignature(
             unmarshalWork(
                 unmarshalSelectors(
                     unmarshalSelectorCount(unmarshalFrom(r, buf, h.pos), buf),
                     buf, 1), buf), buf)

\* Record.UnmarshalFrom: record r after reading from buf at pos, the reader's
\* position afterwards and the error returned.
UnmarshalFrom(r, buf, pos) ==
    LET h == ReadByte(buf, pos) IN
    IF h.err # "nil" THEN [r |-> r, pos |-> h.pos, err |-> h.err]
    ELSE IF h.b = 255 THEN unmarshalDead(r, buf, h.pos)
    ELSE IF h.b # 0 THEN [r |-> r, pos |-> h.pos, err |-> "ErrorRecordInvalid"]
    ELSE unmarshalSignature(
             unmarshalWork(
                 unmarshalSelectors(
                     unmarshalSelectorCount(unmarshalFrom(r, buf, h.pos), buf),
                     buf, 1), buf), buf)

\* The record's fields, without the cached data, hash and id.
Fields(rec) == [rec EXCEPT !.data = <<>>, !.hash = <<>>, !.id = <<>>]

\* Record.MarshalTo without the cache: the serialization of r's fields.
MarshalFields(r) ==
    <<0>> \o marshalTo(r)
    \o writeUVarint(Len(r.Selectors))
    \o Concat([i \in 1..Len(r.Selectors) |-> SelectorBytes(r.Selectors[i])])
    \o <<r.WorkAlgorithm>> \o r.Work
    \o writeUVarint(Len(r.Signature)) \o r.Signature

\* Record.MarshalTo: the bytes written, the cached data if there is any.
MarshalTo(r) == IF Len(r.data) > 0 THEN r.data ELSE MarshalFields(r)

\* Record.Bytes: the record afterwards (the cache filled); r.data is returned.
Bytes(r) == IF Len(r.data) = 0 THEN [r EXCEPT !.data = MarshalTo(r)] ELSE r

\* Record.SizeBytes
SizeBytes(r) == IF Len(r.data) = 0 THEN Len(MarshalTo(r)) ELSE Len(r.data)

\* Record.Hash: the record afterwards (the cache filled); r.hash is returned.
Hash(r) == IF r.hash = <<>> THEN [r EXCEPT !.hash = Shandwich256(MarshalTo(r))] ELSE r

\* bytes.Compare(a, b) < 0
RECURSIVE BytesLess(_, _)
BytesLess(a, b) ==
    IF b = <<>> THEN FALSE
    ELSE IF a = <<>> THEN TRUE
    ELSE IF Head(a) # Head(b) THEN Head(a) < Head(b)
    ELSE BytesLess(Tail(a), Tail(b))

RECURSIVE Insert(_, _)
Insert(k, sorted) ==
    IF sorted = <<>> THEN <<k>>
    ELSE IF BytesLess(k, Head(sorted)) THEN <<k>> \o sorted
    ELSE <<Head(sorted)>> \o Insert(k, Tail(sorted))

RECURSIVE SortKeys(_)
\* sort.Slice of the selector keys, ascending.
SortKeys(keys) == IF keys = <<>> THEN <<>> ELSE Insert(Head(keys), SortKeys(Tail(keys)))

\* An ID that hashes the selector keys in the order of the selectors.
IDUnsorted(r) ==
    IF r.id # <<>> THEN r
    ELSE IF Len(r.Selectors) = 0 THEN Hash(r)
    ELSE [r EXCEPT !.id = Shandwich256(Concat(
              [i \in 1..Len(r.Selectors) |-> SelectorKey(r.Selectors[i])]))]

\* Record.ID: the record afterwards; without selectors ID is Hash() and r.id
\* stays nil.
ID(r) ==
    IF r.id # <<>> THEN r
    ELSE IF Len(r.Selectors) = 0 THEN Hash(r)
    ELSE [r EXCEPT !.id = Shandwich256(Concat(SortKeys(
              [i \in 1..Len(r.Selectors) |-> SelectorKey(r.Selectors[i])])))]

\* What a call of Record.ID returns.
IDValue(r) == IF Len(r.Selectors) = 0 /\ r.id = <<>> THEN Hash(r).hash ELSE ID(r).id

\* ------------------------------------------------------------ signatures
\* Owners, selectors and proofs of work (owner.go, selector.go,
\* wharrgarbl.go).  What has been signed is kept in a list of entries
\* <<kind, key, message>>; a
\* signature is the position of its entry, so that it verifies for the one
\* key and message it was made for and nothing else verifies.

HasEntry(log, e) == \E i \in 1..Len(log) : log[i] = e

\* The position of entry e, which is appended if it is new.
EntryIndex(log, e) ==
    IF HasEntry(log, e) THEN CHOOSE i \in 1..Len(log) : log[i] = e ELSE Len(log) + 1

AddEntry(log, e) == IF HasEntry(log, e) THEN log ELSE Append(log, e)

\* Owner.Sign: the signature; the entry to add is <<"sign", owner, hash>>.
OwnerSign(owner, hash, log) == <<48, EntryIndex(log, <<"sign", owner, hash>>)>>

\* Owner.Verify
OwnerVerify(owner, hash, sig, log) ==
    /\ Len(sig) = 2
    /\ sig[1] = 48
    /\ sig[2] \in 1..Len(log)
    /\ log[sig[2]] = <<"sign", owner, hash>>

\* NewOwnerFromBytes: the first byte of the public bytes is the owner type.
NewOwnerFromBytes(b) == IF b[1] = 1 THEN "nil" ELSE "ErrorInvalidParameter"

\* The key a selector derives from its plain text name.
NameKey(name) == (Head(name) + Len(name)) % 256

\* The order-preserving masked form of an ordinal.
MaskOrdinal(ordinal) == (2 * ordinal + 1) % 256

\* Selector.Claim: the selector; the entry to add is ClaimEntry.
ClaimEntry(name, ordinal, hash) ==
    <<"claim", <<NameKey(name), MaskOrdinal(ordinal)>>, hash>>

SelectorClaim(name, ordinal, hash, log) ==
    <<NameKey(name), MaskOrdinal(ordinal), EntryIndex(log, ClaimEntry(name, ordinal, hash))>>

\* Wharrgarbl: work of difficulty cost for hash: the difficulty, the proof
\* (a handle) and padding to WharrgarblOutputSize bytes.
WorkEntry(hash, cost) == <<"work", PutUint32(cost), hash>>

Wharrgarbl(hash, cost, log) ==
    PutUint32(cost) \o <<EntryIndex(log, WorkEntry(hash, cost))>>
    \o Rep(0, WharrgarblOutputSize - 5)

\* WharrgarblVerify: the difficulty of work if it is work for hash, else 0.
WharrgarblVerify(work, hash, log) ==
    IF /\ Len(work) = WharrgarblOutputSize
       /\ work[5] \in 1..Len(log)
       /\ log[work[5]] = <<"work", Take(work, 4), hash>>
    THEN Uint32(work) ELSE 0

\* ------------------------------------------------------------ work cost

\* integerSqrtRounded: the integer nearest to sqrt(x).
integerSqrtRounded(x) ==
    IF x = 0 THEN 0
    ELSE CHOOSE k \in 1..1024 : k * k - k < x /\ x <= k * k + k

\* A cost whose sanity check hands back the bound instead of clamping the
\* byte count to it.
RecordWharrgarblCostBound(bytes) ==
    IF bytes < 4 THEN bytes + 1
    ELSE IF bytes > RecordMaxSize THEN RecordMaxSize
    ELSE LET b == 3 * bytes
             c == integerSqrtRounded(b) * b * 3 - b * 8
         IN  IF c \div 65536 > 65535 THEN 65535 * 65536 + 65535 ELSE c

\* A cost without the branch for byte counts below 4.
RecordWharrgarblCostCurveOnly(bytes) ==
    LET b == 3 * Min(bytes, RecordMaxSize)
        c == integerSqrtRounded(b) * b * 3 - b * 8
    IN  IF c < 0 \/ c \div 65536 > 65535 THEN 65535 * 65536 + 65535 ELSE c

\* RecordWharrgarblCost
RecordWharrgarblCost(bytes) ==
    IF bytes < 4 THEN bytes + 1
    ELSE LET b == 3 * Min(bytes, RecordMaxSize)
             c == integerSqrtRounded(b) * b * 3 - b * 8
         \* c > 0xffffffff, written within the integers TLC represents
         IN  IF c \div 65536 > 65535 THEN 65535 * 65536 + 65535 ELSE c

\* A uint32 that may exceed the integers at hand is a pair <<hi, lo>> of
\* 16-bit words.
Less32(a, b) == a[1] < b[1] \/ (a[1] = b[1] /\ a[2] < b[2])

\* The high word of cost * 16 + (cost / 10000) * 5369 before it is cut to
\* 16 bits, for a cost below 2^31.
ScoreHigh(cost) ==
    LET t == ((cost[1] * 65536 + cost[2]) \div 10000) * 5369 IN
    cost[1] * 16 + (t \div 65536) + ((cost[2] * 16 + (t % 65536)) \div 65536)

\* The low word of cost * 16 + (cost / 10000) * 5369, for a cost below 2^31.
ScoreLow(cost) ==
    LET t == ((cost[1] * 65536 + cost[2]) \div 10000) * 5369 IN
    (cost[2] * 16 + (t % 65536)) % 65536

\* A score whose threshold is 0x0f7c0000.
RecordWharrgarblScoreLate(cost) ==
    IF Less32(<<3964, 0>>, cost) THEN <<65535, 43227>>
    ELSE IF Less32(cost, <<0, 1>>) THEN <<0, 1>>
    ELSE <<ScoreHigh(cost) % 65536, ScoreLow(cost)>>

\* RecordWharrgarblScore: 0x0f7b0000 is <<3963, 0>>, 0xffffa8db is
\* <<65535, 43227>>; the sum is computed in 32 bits.
RecordWharrgarblScore(cost) ==
    IF Less32(<<3963, 0>>, cost) THEN <<65535, 43227>>
    ELSE IF Less32(cost, <<0, 1>>) THEN <<0, 1>>
    ELSE <<ScoreHigh(cost) % 65536, ScoreLow(cost)>>

\* WharrgarblGetDifficulty (wharrgarbl.go): the difficulty the work states,
\* its first four bytes.
WharrgarblGetDifficulty(work) == <<(work[1] * 256) + work[2], (work[3] * 256) + work[4]>>

\* Record.Score
Score(r) ==
    IF r.WorkAlgorithm = RecordWorkAlgorithmNone THEN <<0, 1>>
    ELSE IF r.WorkAlgorithm = RecordWorkAlgorithmWharrgarbl
    THEN RecordWharrgarblScore(WharrgarblGetDifficulty(r.Work))
    ELSE <<0, 0>>

\* ------------------------------------------------------------ validation

\* A validation loop that feeds the hashers but verifies no claim.
ValidateSelectorsUnverified(r, log, i, hash, stream, billable) ==
    [ok |-> TRUE,
     stream |-> stream \o Concat([k \in 1..Len(r.Selectors) |->
                                     SelectorBytes(r.Selectors[k])]),
     billable |-> billable + SelectorSize * Len(r.Selectors)]

RECURSIVE ValidateSelectorsUnbilled(_, _, _, _, _, _)
\* A validation loop that leaves the selectors out of the billable bytes.
ValidateSelectorsUnbilled(r, log, i, hash, stream, billable) ==
    IF i > Len(r.Selectors)
    THEN [ok |-> TRUE, stream |-> stream, billable |-> billable]
    ELSE IF ~SelectorVerifyClaim(r.Selectors[i], hash, log)
    THEN [ok |-> FALSE, stream |-> stream, billable |-> billable]
    ELSE LET sb == SelectorBytes(r.Selectors[i]) IN
         ValidateSelectorsUnbilled(r, log, i + 1, Sha3(hash \o sb), stream \o sb,
                                   billable)

RECURSIVE ValidateSelectors(_, _, _, _, _, _)
\* The loop of Record.Validate over the selectors from i on: whether every
\* claim verified, the work hasher's stream and the billable bytes.
ValidateSelectors(r, log, i, hash, stream, billable) ==
    IF i > Len(r.Selectors)
    THEN [ok |-> TRUE, stream |-> stream, billable |-> billable]
    ELSE IF ~SelectorVerifyClaim(r.Selectors[i], hash, log)
    THEN [ok |-> FALSE, stream |-> stream, billable |-> billable]
    ELSE LET sb == SelectorBytes(r.Selectors[i]) IN
         ValidateSelectors(r, log, i + 1, Sha3(hash \o sb), stream \o sb,
                           billable + Len(sb))

\* A signature check that accepts whatever is in the signature field.
ValidateSignatureAny(r, log, workHash) == "nil"

\* The owner signature check of Record.Validate.
ValidateSignature(r, log, workHash) ==
    IF NewOwnerFromBytes(r.Owner) # "nil"
    THEN "ErrorRecordOwnerSignatureCheckFailed"
    ELSE IF ~OwnerVerify(r.Owner, Sha3(workHash \o r.Work \o <<r.WorkAlgorithm>>),
                         r.Signature, log)
    THEN "ErrorRecordOwnerSignatureCheckFailed"
    ELSE "nil"

\* A work check that goes on to the signature without looking at the work.
ValidateWorkSkipped(r, log, workHash, billable) ==
    IF NewOwnerFromBytes(r.Owner) # "nil"
       \/ ~OwnerVerify(r.Owner, Sha3(workHash \o r.Work \o <<r.WorkAlgorithm>>),
                       r.Signature, log)
    THEN "ErrorRecordOwnerSignatureCheckFailed"
    ELSE "nil"

\* The work check of Record.Validate.
ValidateWork(r, log, workHash, billable) ==
    IF r.WorkAlgorithm = RecordWorkAlgorithmNone
    THEN ValidateSignature(r, log, workHash)
    ELSE IF r.WorkAlgorithm = RecordWorkAlgorithmWharrgarbl
    THEN IF WharrgarblVerify(r.Work, workHash, log) < RecordWharrgarblCost(billable)
         THEN "ErrorRecordInsufficientWork"
         ELSE ValidateSignature(r, log, workHash)
    ELSE "ErrorRecordInsufficientWork"

\* A Validate that checks the work and the signature before the selector
\* claims.
ValidateWorkFirst(r, log) ==
    IF Len(r.Owner) = 0 THEN "ErrorRecordOwnerSignatureCheckFailed"
    ELSE LET s == ValidateSelectorsUnverified(r, log, 1, signingHash(r),
                                              signingHash(r), sizeBytes(r))
             e == ValidateWork(r, log, Sha3(s.stream), s.billable)
         IN  IF e # "nil" THEN e
             ELSE IF ~ValidateSelectors(r, log, 1, signingHash(r), signingHash(r),
                                        sizeBytes(r)).ok
             THEN "ErrorRecordSelectorClaimCheckFailed"
             ELSE "nil"

\* Record.Validate: the error returned.
Validate(r, log) ==
    IF Len(r.Owner) = 0 THEN "ErrorRecordOwnerSignatureCheckFailed"
    ELSE LET s == ValidateSelectors(r, log, 1, signingHash(r), signingHash(r),
                                    sizeBytes(r))
         IN  IF ~s.ok THEN "ErrorRecordSelectorClaimCheckFailed"
             ELSE ValidateWork(r, log, Sha3(s.stream), s.billable)

\* The calls Validate makes into other code, any of which may panic.
Faults == {"VerifyClaim", "WharrgarblVerify", "NewOwnerFromBytes", "Verify"}

\* Whether Validate gets as far as making the call fault.
ValidateReaches(r, log, fault) ==
    /\ Len(r.Owner) > 0
    /\ CASE fault = "VerifyClaim" -> Len(r.Selectors) > 0
         [] fault = "WharrgarblVerify" ->
              /\ ValidateSelectors(r, log, 1, signingHash(r), signingHash(r),
                                   sizeBytes(r)).ok
              /\ r.WorkAlgorithm = RecordWorkAlgorithmWharrgarbl
         [] fault = "NewOwnerFromBytes" ->
              Validate(r, log) \in {"nil", "ErrorRecordOwnerSignatureCheckFailed"}
         [] fault = "Verify" ->
              /\ Validate(r, log) \in {"nil", "ErrorRecordOwnerSignatureCheckFailed"}
              /\ NewOwnerFromBytes(r.Owner) = "nil"
         [] OTHER -> FALSE

\* The body of Record.Validate when the call fault panics: "panic" if the
\* call is made, else the error returned.
ValidateOutcome(r, log, fault) ==
    IF ValidateReaches(r, log, fault) THEN "panic" ELSE Validate(r, log)

\* A Validate without its deferred function: the panic goes on to the caller.
recoverNothing(outcome) == outcome

\* The deferred function of Record.Validate: a panic becomes the error.
recover(outcome) ==
    IF outcome = "panic" THEN "caught panic validating record" ELSE outcome

\* Record.Validate with its deferred function, when the call fault panics.
ValidateRecovered(r, log, fault) == recover(ValidateOutcome(r, log, fault))

\* ------------------------------------------------------------ value masking
\* compress/lzw and crypto/aes are libraries.  The compressor is modelled as
\* a run-length code (lossless; shrinks runs, grows anything else) and the
\* block cipher as a keyed byte map, in the CFB arrangement of the code.

RECURSIVE RunLength(_, _)
\* The length of the run of byte b that s starts with, 255 at most.
RunLength(s, b) ==
    IF s = <<>> \/ Head(s) # b THEN 0
    ELSE LET n == RunLength(Tail(s), b) IN IF n >= 254 THEN 255 ELSE n + 1

RECURSIVE lzwCompress(_)
\* lzw.NewWriter(..).Write(value); Close(): pairs <<count, byte>>.
lzwCompress(value) ==
    IF value = <<>> THEN <<>>
    ELSE LET n == RunLength(value, Head(value)) IN
         <<n, Head(value)>> \o lzwCompress(Drop(value, n))

RECURSIVE XorByte(_, _, _)
\* a XOR b over the low n bits.
XorByte(a, b, n) ==
    IF n = 0 THEN 0
    ELSE ((a + b) % 2) + 2 * XorByte(a \div 2, b \div 2, n - 1)

RECURSIVE SumBytes(_)
SumBytes(s) == IF s = <<>> THEN 0 ELSE (Head(s) + SumBytes(Tail(s))) % 256

\* sha256.Sum256(maskingKey), the AES key, as far as the block map uses it.
maskingKeyH(maskingKey) == (SumBytes(maskingKey) + 31 * Len(maskingKey)) % 256

\* One application of the block cipher to a 16-byte block.
AesBlock(key, block) == [i \in 1..16 |-> (7 * block[i] + key + 13 * i) % 256]

RECURSIVE CFBEncrypt(_, _, _)
\* cipher.NewCFBEncrypter(c, iv).XORKeyStream: each 16-byte block is XORed
\* with the encryption of the previous ciphertext block (of the IV first).
CFBEncrypt(key, iv, plain) ==
    IF plain = <<>> THEN <<>>
    ELSE LET n == Min(16, Len(plain))
             ks == AesBlock(key, iv)
             c == [i \in 1..n |-> XorByte(plain[i], ks[i], 8)]
         IN  c \o CFBEncrypt(key, c \o Rep(0, 16 - n), Drop(plain, n))

\* The CFB IV: the timestamp, then the first 8 owner bytes when the owner
\* has at least 8 bytes, else zeros.
cfbIv(ts, ownerPublic) ==
    PutUint64(ts) \o (IF Len(ownerPublic) >= 8 THEN Take(ownerPublic, 8) ELSE Rep(0, 8))

\* NewRecordStart: the flag byte and the compressed or raw value, unmasked.
valueFlagged(value) ==
    LET compressed == IF Len(value) >= 16 THEN <<1>> \o lzwCompress(value) ELSE <<>>
        kept == IF Len(compressed) > Len(value) THEN <<>> ELSE compressed
    IN  IF Len(kept) = 0 THEN <<0>> \o value ELSE kept

\* NewRecordStart: the masked value of a non-empty value.
valueMasked(value, maskingKey, ownerPublic, ts) ==
    CFBEncrypt(maskingKeyH(maskingKey), cfbIv(ts, ownerPublic), valueFlagged(value))

\* ------------------------------------------------------------ value unmasking

RECURSIVE CFBDecrypt(_, _, _)
\* cipher.NewCFBDecrypter(c, iv).XORKeyStream: each 16-byte block is XORed
\* with the encryption of the previous ciphertext block (of the IV first).
CFBDecrypt(key, iv, masked) ==
    IF masked = <<>> THEN <<>>
    ELSE LET n == Min(16, Len(masked))
             ks == AesBlock(key, iv)
             c == Take(masked, n)
         IN  [i \in 1..n |-> XorByte(c[i], ks[i], 8)]
             \o CFBDecrypt(key, c \o Rep(0, 16 - n), Drop(masked, n))

RECURSIVE lzwDecompress(_)
\* ioutil.ReadAll(lzw.NewReader(..)): the bytes, and whether the input was
\* well formed (pairs <<count, byte>> with a count of at least one).
lzwDecompress(s) ==
    IF s = <<>> THEN [bytes |-> <<>>, ok |-> TRUE]
    ELSE IF Len(s) < 2 \/ s[1] = 0 THEN [bytes |-> <<>>, ok |-> FALSE]
    ELSE LET rest == lzwDecompress(Drop(s, 2)) IN
         [bytes |-> Rep(s[2], s[1]) \o rest.bytes, ok |-> rest.ok]

\* A GetValue that takes every masked value for a raw one.
GetValueRaw(rb, maskingKey) ==
    IF Len(rb.MaskedValue) = 0 THEN <<>>
    ELSE Drop(CFBDecrypt(maskingKeyH(maskingKey), cfbIv(rb.Timestamp, rb.Owner),
                         rb.MaskedValue), 1)

\* GetValue: what ioutil.ReadAll(io.LimitReader(.., RecordMaxSize)) gives, nil
\* after an error.
readAll(read) ==
    IF ~read.ok THEN <<>> ELSE Take(read.bytes, Min(Len(read.bytes), RecordMaxSize))

\* GetValue: the unmasked value without its flag byte, decompressed if the
\* flag says so.
unflagged(unmaskedValue) ==
    IF unmaskedValue[1] % 2 # 0
    THEN readAll(lzwDecompress(Drop(unmaskedValue, 1)))
    ELSE Drop(unmaskedValue, 1)

\* recordBody.GetValue: the value (nil is the empty sequence).
GetValue(rb, maskingKey) ==
    IF Len(rb.MaskedValue) = 0 THEN <<>>
    ELSE unflagged(CFBDecrypt(maskingKeyH(maskingKey), cfbIv(rb.Timestamp, rb.Owner),
                              rb.MaskedValue))

\* ------------------------------------------------------------ construction

\* NewRecordStart: the body of the new record.
StartBody(value, links, maskingKey, ownerPublic, certificateRecordHash, ts) ==
    [ZeroRecord EXCEPT
        !.MaskedValue = IF Len(value) > 0
                        THEN valueMasked(value, maskingKey, ownerPublic, ts) ELSE <<>>,
        !.Owner = ownerPublic,
        !.Certificate = IF Len(certificateRecordHash) = 32
                        THEN certificateRecordHash ELSE <<>>,
        !.Links = Concat(links),
        !.Timestamp = ts]

RECURSIVE StartSelectors(_, _, _, _, _, _, _, _)
\* The selector loop of NewRecordStart from name i on: the record with its
\* selectors claimed, the work hasher's stream, the billable bytes and the
\* list of what has been signed.
StartSelectors(r, names, ordinals, i, hash, stream, billable, log) ==
    IF i > Len(names)
    THEN [r |-> r, stream |-> stream, billable |-> billable, log |-> log]
    ELSE LET sel == SelectorClaim(names[i], ordinals[i], hash, log)
             sb == SelectorBytes(sel)
         IN  StartSelectors([r EXCEPT !.Selectors = Append(@, sel)], names, ordinals,
                            i + 1, Sha3(hash \o sb), stream \o sb, billable + Len(sb),
                            AddEntry(log, ClaimEntry(names[i], ordinals[i], hash)))

\* NewRecordStart: the record, the work hash, the billable bytes, the error
\* and the list of what has been signed.
NewRecordStart(value, links, maskingKey, plainTextSelectorNames, selectorOrdinals, ownerPublic, certificateRecordHash, ts, log) ==
    IF Len(value) > RecordMaxSize
    THEN [r |-> ZeroRecord, isNil |-> TRUE, workHash |-> Rep(0, 32),
          workBillableBytes |-> 0, err |-> "ErrorInvalidParameter", log |-> log]
    ELSE LET body == StartBody(value, links, maskingKey, ownerPublic,
                               certificateRecordHash, ts)
             s == StartSelectors(body, plainTextSelectorNames, selectorOrdinals, 1,
                                 signingHash(body), signingHash(body),
                                 sizeBytes(body), log)
         IN  [r |-> s.r, isNil |-> FALSE, workHash |-> Sha3(s.stream),
              workBillableBytes |-> s.billable, err |-> "nil", log |-> s.log]

\* NewRecordDoWork: the work and the error; found says whether Wharrgarbl
\* came back with a result (iter > 0).
NewRecordDoWork(workHash, workBillableBytes, workAlgorithm, found, log) ==
    IF workAlgorithm = RecordWorkAlgorithmNone
    THEN [work |-> <<>>, err |-> "nil", log |-> log]
    ELSE IF workAlgorithm = RecordWorkAlgorithmWharrgarbl
    THEN IF ~found
         THEN [work |-> <<>>, err |-> "ErrorWharrgarblFailed", log |-> log]
         ELSE [work |-> Wharrgarbl(workHash, RecordWharrgarblCost(workBillableBytes), log),
               err |-> "nil",
               log |-> AddEntry(log, WorkEntry(workHash,
                                    RecordWharrgarblCost(workBillableBytes)))]
    ELSE [work |-> <<>>, err |-> "ErrorInvalidParameter", log |-> log]

\* An AddWork whose signing hash leaves the work algorithm out.
NewRecordAddWorkNoAlgorithm(incompleteRecord, workHash, work, workAlgorithm) ==
    [r |-> [incompleteRecord EXCEPT !.Work = work, !.WorkAlgorithm = workAlgorithm],
     signingHash |-> Sha3(workHash \o work)]

\* NewRecordAddWork: the record with the work attached and the signing hash.
NewRecordAddWork(incompleteRecord, workHash, work, workAlgorithm) ==
    [r |-> [incompleteRecord EXCEPT !.Work = work, !.WorkAlgorithm = workAlgorithm],
     signingHash |-> Sha3(workHash \o work \o <<workAlgorithm>>)]

\* NewRecordComplete: the record with the signature attached, whether nil is
\* returned in its place, the error and the list of what has been signed.
NewRecordComplete(incompleteRecord, hash, owner, log) ==
    LET r == [incompleteRecord EXCEPT !.Signature = OwnerSign(owner, hash, log)] IN
    [r |-> r,
     isNil |-> SizeBytes(r) > RecordMaxSize,
     err |-> IF SizeBytes(r) > RecordMaxSize THEN "ErrorRecordTooLarge" ELSE "nil",
     log |-> AddEntry(log, <<"sign", owner, hash>>)]

\* NewRecord after NewRecordAddWork: NewRecordComplete.
NewRecordSigned(a, owner, log) == NewRecordComplete(a.r, a.signingHash, owner, log)

\* NewRecord after NewRecordDoWork returned w: r is still what
\* NewRecordStart returned when the work failed.
NewRecordWorked(s, w, workAlgorithm, owner) ==
    IF w.err # "nil"
    THEN [r |-> s.r, isNil |-> s.isNil, err |-> w.err, log |-> w.log]
    ELSE NewRecordSigned(NewRecordAddWork(s.r, s.workHash, w.work, workAlgorithm),
                         owner, w.log)

\* NewRecord after NewRecordStart returned s.  found says whether
\* Wharrgarbl came back with a result.
NewRecordStarted(s, workAlgorithm, owner, found) ==
    IF s.err # "nil"
    THEN [r |-> s.r, isNil |-> s.isNil, err |-> s.err, log |-> s.log]
    ELSE NewRecordWorked(s, NewRecordDoWork(s.workHash, s.workBillableBytes,
                                            workAlgorithm, found, s.log),
                         workAlgorithm, owner)

\* NewRecord: the three phases in one call.  r and isNil are the named
\* result r as the return statement that was taken leaves it.
NewRecord(value, links, maskingKey, plainTextSelectorNames, selectorOrdinals, certificateRecordHash, ts, workAlgorithm, owner, found, log) ==
    NewRecordStarted(NewRecordStart(value, links, maskingKey, plainTextSelectorNames,
                                    selectorOrdinals, owner, certificateRecordHash,
                                    ts, log),
                     workAlgorithm, owner, found)

\* ------------------------------------------------------------ the inputs

\* The most selectors a record of the model is started with.
MaxSelectors == 2
\* The most links a record of the small universe is started with.
MaxLinks == 1
\* The links of the one record of the large universe: with a two-byte
\* value, work and a signature it serializes to more than RecordMaxSize
\* bytes, without the work and the signature to less.
LargeLinks == 2047

LinkA == Rep(170, 32)

CertA == Rep(204, 32)

OwnerA == <<1, 10, 11, 12, 13, 14, 15, 16, 17>>

OwnerB == <<1, 20, 21>>

Owners == {OwnerA, OwnerB}

Values == {<<>>, <<104, 105>>}

\* <<plain text name, ordinal>>: ("foo", 0), ("bar", 7), ("foo", 7), ...
SelectorPool == <<<<<<102, 111, 111>>, 0>>, <<<<98, 97, 114>>, 7>>, <<<<102, 111, 111>>, 7>>,
                  <<<<98, 97, 114>>, 0>>>>

SelectorLists == {Take(SelectorPool, n) : n \in 0..MaxSelectors}

\* What NewRecordStart is called with, in the small and the large universe.
Inputs(u) ==
    IF u = "large"
    THEN {[value |-> <<104, 105>>, links |-> Rep(LinkA, LargeLinks), sels |-> <<>>,
           owner |-> OwnerA, cert |-> <<>>, ts |-> 1000000]}
    ELSE [value : Values, links : {Rep(LinkA, n) : n \in 0..MaxLinks},
          sels : SelectorLists, owner : {OwnerA}, cert : {<<>>, CertA},
          ts : {1000000}]

\* ------------------------------------------------------------ the state

VARIABLES
    universe,   \* "small" or "large": which inputs NewRecordStart draws from;
                \* "decode": the caller only reads a stream of records;
                \* "shared": threads share one completed Record
    rPacked,    \* the Record the caller holds
    phase,      \* Empty, Started, Worked, Signed, Refused, Decoded, Failed
    signedPacked, \* what has been signed so far: <<kind, key, message>>
    startPacked,  \* what NewRecordStart returned: workHash, workBillableBytes
    shPacked,   \* the signing hash NewRecordAddWork returned
    retPacked,  \* the last call and what it returned
    wirePacked, \* the bytes in the reader handed to the decoder
    rpos,       \* how many bytes of the reader have been consumed
    build,      \* history: how the record was built
    shared,     \* the threads that share the Record and its cached fields
                \* as they are in memory
    sent        \* history: what MarshalTo wrote, the fields and phase of the
                \* record it was called on, how the bytes were changed since
                \* and the error of decoding them ("no": not decoded yet)

vars ==
    <<universe, rPacked, phase, signedPacked, startPacked, shPacked, retPacked,
      wirePacked, rpos, build, sent, shared>>

\* The byte strings of rPacked, signedPacked, startPacked, shPacked, retPacked
\* and wirePacked are kept packed; r, signed, start, sh, ret and wire are
\* what they stand for.
PackRecord(rec) ==
    [rec EXCEPT !.MaskedValue = Pack(@), !.Owner = Pack(@), !.Certificate = Pack(@),
                !.Links = Pack(@), !.Work = Pack(@), !.Signature = Pack(@),
                !.data = Pack(@), !.hash = Pack(@), !.id = Pack(@)]

UnpackRecord(rec) ==
    [rec EXCEPT !.MaskedValue = Unpack(@), !.Owner = Unpack(@),
                !.Certificate = Unpack(@), !.Links = Unpack(@), !.Work = Unpack(@),
                !.Signature = Unpack(@), !.data = Unpack(@), !.hash = Unpack(@),
                !.id = Unpack(@)]

PackLog(log) == [i \in 1..Len(log) |-> <<log[i][1], log[i][2], Pack(log[i][3])>>]

r == UnpackRecord(rPacked)

signed ==
    [i \in 1..Len(signedPacked) |->
        <<signedPacked[i][1], signedPacked[i][2], Unpack(signedPacked[i][3])>>]

start == [startPacked EXCEPT !.workHash = Unpack(@)]

sh == Unpack(shPacked)

ret == [retPacked EXCEPT !.bytes = Unpack(@)]

wire == Unpack(wirePacked)

\* op: the call, err: its error, bytes: the bytes it returned, n: the number
\* it returned (a size, or the bytes a decoder consumed), at: where in the
\* reader a decoder started, isNil: a constructor returned no record.
\* fault: the call inside Validate that was made to panic.
NoRet == [op |-> "none", err |-> "nil", bytes |-> <<>>, n |-> 0, at |-> 0, isNil |-> FALSE,
          fault |-> "none"]

\* What NewRecordStart or NewRecord was last called with (value packed).
NoInput == [value |-> <<>>, links |-> <<>>, key |-> <<>>, sels |-> <<>>,
            owner |-> <<>>, cert |-> <<>>, ts |-> 0]

NoBuild == [honestWork |-> FALSE, ownOwner |-> FALSE, cachedAtComplete |-> FALSE,
            in |-> NoInput]

\* No thread shares the Record.
NoShared == [mem |-> <<>>, heap |-> <<>>, threads |-> <<>>]

NoSent == [bytes |-> <<>>, of |-> ZeroRecord, phase |-> "Empty", tamper |-> "none",
           decoded |-> "no"]

InitIn(u) ==
    /\ universe = u
    /\ rPacked = PackRecord(ZeroRecord)
    /\ phase = "Empty"
    /\ signedPacked = <<>>
    /\ startPacked = [workHash |-> <<>>, workBillableBytes |-> 0]
    /\ shPacked = <<>>
    /\ retPacked = NoRet
    /\ wirePacked = <<>>
    /\ rpos = 0
    /\ build = NoBuild
    /\ sent = NoSent
    /\ shared = NoShared

Init == InitIn("small")

InitLarge == InitIn("large")

Constructed == {"Started", "Worked", "Signed", "Refused"}

\* ------------------------------------------------------------ construction

\* NewRecordStart(value, links, maskingKey, names, ordinals, ownerPublic, ...)
Start ==
    /\ phase = "Empty"
    /\ \E in \in Inputs(universe) :
         LET res == NewRecordStart(in.value, in.links, <<107>>,
                        [i \in 1..Len(in.sels) |-> in.sels[i][1]],
                        [i \in 1..Len(in.sels) |-> in.sels[i][2]],
                        in.owner, in.cert, in.ts, signed)
         IN  /\ rPacked' = PackRecord(res.r)
             /\ signedPacked' = PackLog(res.log)
             /\ startPacked' = [workHash |-> Pack(res.workHash),
                                workBillableBytes |-> res.workBillableBytes]
             /\ retPacked' = [NoRet EXCEPT !.op = "NewRecordStart", !.err = res.err,
                                     !.isNil = res.isNil]
             /\ phase' = IF res.isNil THEN "Empty" ELSE "Started"
    /\ UNCHANGED <<shared, universe, shPacked, wirePacked, rpos, build, sent>>

\* The work a caller hands to NewRecordAddWork: what NewRecordDoWork found,
\* or else Wharrgarbl work one below the cost, or stray bytes with None.
CallerWork(workAlgorithm, honest, log) ==
    IF honest
    THEN NewRecordDoWork(start.workHash, start.workBillableBytes, workAlgorithm,
                         TRUE, log)
    ELSE IF workAlgorithm = RecordWorkAlgorithmWharrgarbl
    THEN LET cost == RecordWharrgarblCost(start.workBillableBytes) - 1 IN
         [work |-> Wharrgarbl(start.workHash, cost, log), err |-> "nil",
          log |-> AddEntry(log, WorkEntry(start.workHash, cost))]
    ELSE [work |-> <<9>>, err |-> "nil", log |-> log]

\* NewRecordDoWork (or a caller's own work), then NewRecordAddWork.
AddWork ==
    /\ phase = "Started"
    /\ sent.bytes = <<>>
    /\ \E workAlgorithm \in {RecordWorkAlgorithmNone, RecordWorkAlgorithmWharrgarbl},
          honest \in BOOLEAN :
         LET w == CallerWork(workAlgorithm, honest, signed)
             res == NewRecordAddWork(r, start.workHash, w.work, workAlgorithm)
         IN  /\ rPacked' = PackRecord(res.r)
             /\ shPacked' = Pack(res.signingHash)
             /\ signedPacked' = PackLog(w.log)
             /\ build' = [build EXCEPT !.honestWork = honest]
             /\ retPacked' = [NoRet EXCEPT !.op = "NewRecordAddWork"]
    /\ phase' = "Worked"
    /\ UNCHANGED <<shared, universe, startPacked, wirePacked, rpos, sent>>

\* NewRecordComplete(r, signingHash, owner)
Complete ==
    /\ phase = "Worked"
    /\ sent.bytes = <<>>
    /\ \E owner \in Owners :
         LET res == NewRecordComplete(r, sh, owner, signed) IN
         /\ rPacked' = PackRecord(res.r)
         /\ signedPacked' = PackLog(res.log)
         /\ retPacked' = [NoRet EXCEPT !.op = "NewRecordComplete", !.err = res.err,
                                 !.isNil = res.isNil]
         /\ phase' = IF res.isNil THEN "Refused" ELSE "Signed"
         /\ build' = [build EXCEPT !.ownOwner = (owner = r.Owner),
                                   !.cachedAtComplete = (Len(r.data) > 0)]
    /\ UNCHANGED <<shared, universe, startPacked, shPacked, wirePacked, rpos, sent>>

\* ------------------------------------------------------------ derived fields

\* r.Bytes()
CallBytes ==
    /\ phase # "Empty"
    /\ sent.bytes = <<>>
    /\ rPacked' = PackRecord(Bytes(r))
    /\ retPacked' = [NoRet EXCEPT !.op = "Bytes", !.bytes = Pack(Bytes(r).data)]
    /\ UNCHANGED <<shared, universe, phase, signedPacked, startPacked, shPacked,
                   wirePacked, rpos, build, sent>>

\* r.SizeBytes()
CallSizeBytes ==
    /\ phase # "Empty"
    /\ retPacked' = [NoRet EXCEPT !.op = "SizeBytes", !.n = SizeBytes(r)]
    /\ UNCHANGED <<shared, universe, rPacked, phase, signedPacked, startPacked,
                   shPacked, wirePacked, rpos, build, sent>>

\* r.Hash()
CallHash ==
    /\ phase # "Empty"
    /\ rPacked' = PackRecord(Hash(r))
    /\ retPacked' = [NoRet EXCEPT !.op = "Hash", !.bytes = Pack(Hash(r).hash)]
    /\ UNCHANGED <<shared, universe, phase, signedPacked, startPacked, shPacked,
                   wirePacked, rpos, build, sent>>

\* r.ID()
CallID ==
    /\ phase # "Empty"
    /\ rPacked' = PackRecord(ID(r))
    /\ retPacked' = [NoRet EXCEPT !.op = "ID", !.bytes = Pack(IDValue(r))]
    /\ UNCHANGED <<shared, universe, phase, signedPacked, startPacked, shPacked,
                   wirePacked, rpos, build, sent>>

\* ------------------------------------------------------------ the wire

\* r.MarshalTo(w): the first serialization of a constructed record is what
\* is later handed to the decoder.
CallMarshalTo ==
    /\ phase \in Constructed
    /\ sent.bytes = <<>>
    /\ wirePacked' = Pack(MarshalTo(r))
    /\ rpos' = 0
    /\ sent' = [bytes |-> MarshalTo(r),
                of |-> Fields(r),
                phase |-> phase, tamper |-> "none", decoded |-> "no"]
    /\ retPacked' = [NoRet EXCEPT !.op = "MarshalTo", !.n = Len(MarshalTo(r))]
    /\ UNCHANGED <<shared, universe, rPacked, phase, signedPacked, startPacked,
                   shPacked, build>>

\* What the serialized bytes decode to, into a new Record.
Parsed(bytes) == UnmarshalFrom(ZeroRecord, bytes, 0)

Untouched == sent.bytes # <<>> /\ sent.tamper = "none" /\ sent.decoded = "no"

\* The serialized form with byte i of masked_value changed.
FlipValueByte(bytes, i) ==
    MarshalFields([Parsed(bytes).r EXCEPT !.MaskedValue[i] = XorByte(@, 255, 8)])

\* The serialized form with selectors i and j exchanged.
SwapSelectors(bytes, i, j) ==
    LET p == Parsed(bytes).r IN
    MarshalFields([p EXCEPT !.Selectors[i] = p.Selectors[j],
                            !.Selectors[j] = p.Selectors[i]])

\* The serialized form with the work algorithm byte set to 0x00, the work
\* bytes removed (cut) or left in place.
StripWork(bytes, cut) ==
    LET p == Parsed(bytes).r IN
    MarshalFields([p EXCEPT !.WorkAlgorithm = RecordWorkAlgorithmNone,
                            !.Work = IF cut THEN <<>> ELSE @])

\* Someone changes one byte of masked_value in the serialized record.
TamperValue ==
    /\ Untouched
    /\ Parsed(wire).err = "nil"
    /\ \E i \in 1..Len(Parsed(wire).r.MaskedValue) :
         wirePacked' = Pack(FlipValueByte(wire, i))
    /\ sent' = [sent EXCEPT !.tamper = "value"]
    /\ UNCHANGED <<shared, universe, rPacked, phase, signedPacked, startPacked,
                   shPacked, retPacked, rpos, build>>

\* Someone exchanges two distinct selectors of the serialized record.
TamperSwap ==
    /\ Untouched
    /\ Parsed(wire).err = "nil"
    /\ \E i, j \in 1..Len(Parsed(wire).r.Selectors) :
         /\ i < j
         /\ Parsed(wire).r.Selectors[i] # Parsed(wire).r.Selectors[j]
         /\ wirePacked' = Pack(SwapSelectors(wire, i, j))
    /\ sent' = [sent EXCEPT !.tamper = "swap"]
    /\ UNCHANGED <<shared, universe, rPacked, phase, signedPacked, startPacked,
                   shPacked, retPacked, rpos, build>>

\* Someone strips the work off a serialized Wharrgarbl record.
TamperStrip ==
    /\ Untouched
    /\ Parsed(wire).err = "nil"
    /\ Parsed(wire).r.WorkAlgorithm = RecordWorkAlgorithmWharrgarbl
    /\ \E cut \in BOOLEAN : wirePacked' = Pack(StripWork(wire, cut))
    /\ sent' = [sent EXCEPT !.tamper = "strip"]
    /\ UNCHANGED <<shared, universe, rPacked, phase, signedPacked, startPacked,
                   shPacked, retPacked, rpos, build>>

\* NewRecordFromBytes(wire): a new Record, decoded from the start.
FromBytes ==
    /\ sent.bytes # <<>>
    /\ sent.decoded = "no"
    /\ LET d == UnmarshalFrom(ZeroRecord, wire, 0) IN
         /\ rPacked' = PackRecord(d.r)
         /\ rpos' = d.pos
         /\ retPacked' = [NoRet EXCEPT !.op = "UnmarshalFrom", !.err = d.err, !.n = d.pos]
         /\ sent' = [sent EXCEPT !.decoded = d.err]
    /\ phase' = "Decoded"
    /\ UNCHANGED <<shared, universe, signedPacked, startPacked, shPacked, wirePacked,
                   build>>

\* r.UnmarshalFrom(reader): the Record the caller holds reads the next
\* record of the reader.  A caller stops reading a stream at the first error
\* other than ErrorRecordMarkedIgnore.
Unmarshal ==
    /\ rpos < Len(wire)
    /\ phase # "Failed"
    /\ LET d == UnmarshalFrom(r, wire, rpos) IN
         /\ rPacked' = PackRecord(d.r)
         /\ rpos' = d.pos
         /\ retPacked' = [NoRet EXCEPT !.op = "UnmarshalFrom", !.err = d.err,
                                 !.n = d.pos - rpos, !.at = rpos]
         /\ phase' = IF d.err \in {"nil", "ErrorRecordMarkedIgnore"}
                     THEN "Decoded" ELSE "Failed"
    /\ UNCHANGED <<shared, universe, signedPacked, startPacked, shPacked, wirePacked,
                   build, sent>>

\* r.Validate()
CallValidate ==
    /\ phase = "Decoded"
    /\ sent.decoded \in {"no", "nil"}
    /\ retPacked' = [NoRet EXCEPT !.op = "Validate", !.err = Validate(r, signed)]
    /\ UNCHANGED <<shared, universe, rPacked, phase, signedPacked, startPacked,
                   shPacked, wirePacked, rpos, build, sent>>

\* A record that some other node serialized.
ForeignRecord ==
    [ZeroRecord EXCEPT !.MaskedValue = <<1, 2, 3>>, !.Owner = OwnerB, !.Timestamp = 5,
                       !.Signature = <<48, 9>>]

\* What a reader handed to r.UnmarshalFrom holds: the foreign record, whole
\* or cut short after its masked value.
ForeignWires == {MarshalFields(ForeignRecord), Take(MarshalFields(ForeignRecord), 6)}

\* The caller opens a reader on bytes from elsewhere.
Feed ==
    /\ phase \in Constructed
    /\ wirePacked = <<>>
    /\ wirePacked' \in {Pack(w) : w \in ForeignWires}
    /\ rpos' = 0
    /\ UNCHANGED <<shared, universe, rPacked, phase, signedPacked, startPacked,
                   shPacked, retPacked, build, sent>>

Next ==
    \/ Start
    \/ AddWork
    \/ Complete
    \/ CallBytes
    \/ CallMarshalTo
    \/ TamperValue
    \/ TamperSwap
    \/ TamperStrip
    \/ FromBytes
    \/ CallValidate

\* One record built, serialized, possibly tampered with, decoded and
\* validated.
Spec == Init /\ [][Next]_vars

NextCache ==
    \/ Start
    \/ AddWork
    \/ Complete
    \/ CallBytes
    \/ CallSizeBytes
    \/ CallHash
    \/ CallID
    \/ Feed
    \/ Unmarshal

\* One Record and every order of the calls that fill or should drop its
\* cached data, hash and id.
SpecCache == Init /\ [][NextCache]_vars

NextLarge ==
    \/ Start
    \/ AddWork
    \/ Complete
    \/ CallBytes
    \/ CallSizeBytes
    \/ CallHash

\* The construction of the one record of the large universe.
SpecLarge == InitLarge /\ [][NextLarge]_vars

\* ------------------------------------------------------------ streams

\* The longest dead record of a stream.
MaxDead == 7

\* The most records in a stream.
MaxItems == 2

\* What is left in a flat file of a record of deadLen bytes that was marked
\* to be ignored: 0xff, the length, and the rest of the record.
DeadRecord(deadLen) ==
    <<255>> \o PutUint32(deadLen) \o Rep(170, IF deadLen >= 5 THEN deadLen - 5 ELSE 0)

\* A record with two selectors and Wharrgarbl work.
WorkedRecord ==
    [ForeignRecord EXCEPT !.Certificate = CertA, !.Links = LinkA,
                          !.Selectors = <<<<1, 2, 3>>, <<4, 5, 6>>>>,
                          !.Work = Rep(1, WharrgarblOutputSize),
                          !.WorkAlgorithm = RecordWorkAlgorithmWharrgarbl]

\* A record whose masked value has n bytes.
ValueRecord(n) == [ForeignRecord EXCEPT !.MaskedValue = Rep(7, n)]

Items ==
    {DeadRecord(deadLen) : deadLen \in 0..MaxDead}
    \cup {MarshalFields(ForeignRecord), MarshalFields(WorkedRecord)}

\* The streams a reader holds: some records one after the other, a record
\* cut short, a record of another version, and records around the size limit.
Streams ==
    {Concat(items) : items \in UNION {[1..n -> Items] : n \in 1..MaxItems}}
    \cup {Take(MarshalFields(WorkedRecord), n) : n \in {40, 75, 82, 90}}
    \cup {<<1>> \o marshalTo(ForeignRecord)}
    \cup {MarshalFields(ValueRecord(n)) \o MarshalFields(ForeignRecord) :
             n \in {RecordMaxSize - 20, RecordMaxSize, RecordMaxSize + 1}}

InitDecode ==
    /\ universe = "decode"
    /\ rPacked = PackRecord(ZeroRecord)
    /\ phase = "Empty"
    /\ signedPacked = <<>>
    /\ startPacked = [workHash |-> <<>>, workBillableBytes |-> 0]
    /\ shPacked = <<>>
    /\ retPacked = NoRet
    /\ wirePacked \in {Pack(stream) : stream \in Streams}
    /\ rpos = 0
    /\ build = NoBuild
    /\ sent = NoSent
    /\ shared = NoShared

NextDecode ==
    \/ Unmarshal
    \/ CallBytes

\* One Record reading the records of a stream one after the other.
SpecDecode == InitDecode /\ [][NextDecode]_vars

\* ------------------------------------------------------------ sharing
\* Threads call Bytes(), Hash() and ID() on one completed Record and nothing
\* orders their reads and writes of r.data, r.hash and r.id.  A slice is two
\* words here, pointer and length, each loaded and stored on its own; a
\* pointer is one word.  What a thread stored into a new buffer reaches the
\* other threads as one more store (flush), and nothing orders it with the
\* store of the pointer either.

\* The threads that share the Record.
MaxThreads == 2

\* The calls each thread makes.
MaxCalls == 2

Threads == 1..MaxThreads

\* What a load through a nil pointer, or of a slice whose pointer is nil and
\* whose length is not 0, comes to: no byte string.
Torn == <<-1>>

\* The cached fields before any call: nil (0 is the nil pointer, other
\* pointers are indices into the heap).
NilMem == [dataPtr |-> 0, dataLen |-> 0, hashPtr |-> 0, idPtr |-> 0]

IdleThread ==
    [pc |-> "idle", call |-> "none", op |-> "none", calls |-> 0, buf |-> <<>>,
     obj |-> 0, pending |-> {}, result |-> <<>>]

\* What thread t finds in the buffer p points to: the bytes written to it if
\* they have reached t, else the zeros it was allocated with.
Deref(sm, t, p) ==
    IF p = 0 THEN Torn
    ELSE IF sm.heap[p].flushed \/ sm.heap[p].owner = t THEN sm.heap[p].val
    ELSE Rep(0, Len(sm.heap[p].val))

\* The slice r.data as thread t loads it.
LoadData(sm, t) ==
    IF sm.mem.dataLen = 0 THEN <<>>
    ELSE IF sm.mem.dataPtr = 0 THEN Torn
    ELSE Take(Deref(sm, t, sm.mem.dataPtr), sm.mem.dataLen)

\* Record.MarshalTo as thread t runs it: the cached data if its length is
\* not 0, else the serialization of the fields.
MarshalToShared(sm, t) ==
    IF sm.mem.dataLen > 0 THEN LoadData(sm, t) ELSE MarshalFields(r)

\* The test a call starts with: whether the cached field has to be filled.
Missing(sm, op) ==
    IF op = "Bytes" THEN sm.mem.dataLen = 0
    ELSE IF op = "Hash" THEN sm.mem.hashPtr = 0
    ELSE sm.mem.idPtr = 0

\* A thread enters Bytes(), Hash() or ID() and tests the cached field.  ID()
\* of a record without selectors is Hash().
Enter(t) ==
    /\ shared.threads[t].pc = "idle"
    /\ shared.threads[t].calls < MaxCalls
    /\ \E call \in {"Bytes", "Hash", "ID"} :
         LET op == IF call = "ID" /\ shared.mem.idPtr = 0 /\ Len(r.Selectors) = 0
                   THEN "Hash" ELSE call
         IN  shared' = [shared EXCEPT
                 !.threads[t].call = call,
                 !.threads[t].op = op,
                 !.threads[t].pc = IF Missing(shared, op) THEN "fill" ELSE "return"]
    /\ UNCHANGED <<universe, rPacked, phase, signedPacked, startPacked, shPacked,
                   retPacked, wirePacked, rpos, build, sent>>

\* What a thread computes to fill the cached field of op.
Computed(sm, t, op) ==
    IF op = "Bytes" THEN MarshalToShared(sm, t)
    ELSE IF op = "Hash"
    THEN IF MarshalToShared(sm, t) = Torn THEN Torn
         ELSE Shandwich256(MarshalToShared(sm, t))
    ELSE ID(Fields(r)).id

\* The words a thread stores to fill the cached field of op.
Stores(op) == IF op = "Bytes" THEN {"ptr", "len", "flush"} ELSE {"ptr", "flush"}

\* The thread computes the value into a new buffer; a load of a torn slice
\* ends the call (and the program) there.
Fill(t) ==
    /\ shared.threads[t].pc = "fill"
    /\ LET th == shared.threads[t]
           v == Computed(shared, t, th.op)
       IN  IF v = Torn
           THEN shared' = [shared EXCEPT !.threads[t].pc = "idle",
                                         !.threads[t].calls = MaxCalls,
                                         !.threads[t].result = Torn]
           ELSE shared' = [shared EXCEPT
                    !.heap = Append(@, [owner |-> t, val |-> v, flushed |-> FALSE]),
                    !.threads[t].buf = v,
                    !.threads[t].obj = Len(shared.heap) + 1,
                    !.threads[t].pending = Stores(th.op),
                    !.threads[t].pc = "store"]
    /\ UNCHANGED <<universe, rPacked, phase, signedPacked, startPacked, shPacked,
                   retPacked, wirePacked, rpos, build, sent>>

\* The memory after thread t's store w.
Stored(sm, t, w) ==
    LET th == sm.threads[t] IN
    IF w = "flush" THEN [sm EXCEPT !.heap[th.obj].flushed = TRUE]
    ELSE IF w = "len" THEN [sm EXCEPT !.mem.dataLen = Len(th.buf)]
    ELSE IF th.op = "Bytes" THEN [sm EXCEPT !.mem.dataPtr = th.obj]
    ELSE IF th.op = "Hash" THEN [sm EXCEPT !.mem.hashPtr = th.obj]
    ELSE [sm EXCEPT !.mem.idPtr = th.obj]

\* One of the stores of r.data = ..., r.hash = ... or r.id = ..., in any
\* order.
Store(t) ==
    /\ shared.threads[t].pc = "store"
    /\ \E w \in shared.threads[t].pending :
         shared' = [Stored(shared, t, w) EXCEPT
                        !.threads[t].pending = @ \ {w},
                        !.threads[t].pc = IF shared.threads[t].pending = {w}
                                          THEN "return" ELSE "store"]
    /\ UNCHANGED <<universe, rPacked, phase, signedPacked, startPacked, shPacked,
                   retPacked, wirePacked, rpos, build, sent>>

\* What the call returns, as its caller reads it: return r.data, r.hash or
\* r.id.
Returned(sm, t, op) ==
    IF op = "Bytes" THEN LoadData(sm, t)
    ELSE IF op = "Hash" THEN Deref(sm, t, sm.mem.hashPtr)
    ELSE Deref(sm, t, sm.mem.idPtr)

Return(t) ==
    /\ shared.threads[t].pc = "return"
    /\ shared' = [shared EXCEPT
           !.threads[t].result = Returned(shared, t, shared.threads[t].op),
           !.threads[t].calls = @ + 1,
           !.threads[t].pc = "idle"]
    /\ UNCHANGED <<universe, rPacked, phase, signedPacked, startPacked, shPacked,
                   retPacked, wirePacked, rpos, build, sent>>

InitShared ==
    /\ universe = "shared"
    /\ rPacked \in {PackRecord(ForeignRecord), PackRecord(WorkedRecord)}
    /\ phase = "Decoded"
    /\ signedPacked = <<>>
    /\ startPacked = [workHash |-> <<>>, workBillableBytes |-> 0]
    /\ shPacked = <<>>
    /\ retPacked = NoRet
    /\ wirePacked = <<>>
    /\ rpos = 0
    /\ build = NoBuild
    /\ sent = NoSent
    /\ shared = [mem |-> NilMem, heap |-> <<>>, threads |-> [t \in Threads |-> IdleThread]]

NextShared ==
    \/ \E t \in Threads : Enter(t)
    \/ \E t \in Threads : Fill(t)
    \/ \E t \in Threads : Store(t)
    \/ \E t \in Threads : Return(t)

\* One completed Record and the threads that call Bytes(), Hash() and ID()
\* on it.
SpecShared == InitShared /\ [][NextShared]_vars

\* ------------------------------------------------------------ bodies
\* NewRecordStart, NewRecord and GetValue on values on both sides of the
\* compression threshold, owners of every length up to OwnerA's and links
\* of any length.

\* Sixteen equal bytes: the compressor shrinks them.
ValueRun == Rep(97, 16)
\* Seventeen bytes in eight runs: compressed and flagged they are seventeen.
ValueEven == <<1, 1, 1, 2, 2, 1, 1, 2, 2, 1, 1, 2, 2, 1, 1, 2, 2>>
\* Sixteen different bytes: the compressor grows them.
ValueMixed == [i \in 1..16 |-> 64 + i]
\* One byte more than NewRecordStart takes.
ValueOver == Rep(7, RecordMaxSize + 1)

BuildValues == Values \cup {ValueRun, ValueEven, ValueMixed}

MaskingKeys == {<<107>>, <<1, 2>>}

OwnerPrefixes == {Take(OwnerA, n) : n \in 0..Len(OwnerA)}

LinkLists == {<<>>, <<LinkA>>, <<Rep(1, 31)>>, <<LinkA, Rep(2, 33)>>}

\* The work algorithm bytes a caller passes: None, Wharrgarbl and others.
MaxWorkAlgorithm == 2

WorkAlgorithms == 0..MaxWorkAlgorithm

\* A call with a value that is too long.
InputOver ==
    [value |-> ValueOver, links |-> <<>>, key |-> <<107>>, sels |-> <<>>,
     owner |-> OwnerA, cert |-> <<>>, ts |-> 1000000]

BuildInputs ==
    [value : BuildValues, links : LinkLists, key : MaskingKeys,
     sels : {Take(SelectorPool, n) : n \in 0..1}, owner : OwnerPrefixes,
     cert : {<<>>}, ts : {5, 1000000}]
    \cup {InputOver}

NewInputs ==
    [value : BuildValues, links : {<<>>, <<LinkA>>}, key : {<<107>>},
     sels : {Take(SelectorPool, n) : n \in 0..1}, owner : Owners,
     cert : {<<>>, CertA}, ts : {1000000}]
    \cup {InputOver}

\* NewRecordStart(value, links, maskingKey, names, ordinals, ownerPublic, ...)
\* with any of BuildInputs.
StartValue ==
    /\ phase = "Empty"
    /\ \E in \in BuildInputs :
         LET res == NewRecordStart(in.value, in.links, in.key,
                        [i \in 1..Len(in.sels) |-> in.sels[i][1]],
                        [i \in 1..Len(in.sels) |-> in.sels[i][2]],
                        in.owner, in.cert, in.ts, signed)
         IN  /\ rPacked' = PackRecord(res.r)
             /\ signedPacked' = PackLog(res.log)
             /\ startPacked' = [workHash |-> Pack(res.workHash),
                                workBillableBytes |-> res.workBillableBytes]
             /\ retPacked' = [NoRet EXCEPT !.op = "NewRecordStart", !.err = res.err,
                                     !.isNil = res.isNil]
             /\ phase' = IF res.isNil THEN "Empty" ELSE "Started"
             /\ build' = [build EXCEPT !.in = [in EXCEPT !.value = Pack(@)]]
    /\ UNCHANGED <<shared, universe, shPacked, wirePacked, rpos, sent>>

\* r.GetValue(maskingKey), with the masking key the record was started with.
CallGetValue ==
    /\ phase = "Started"
    /\ retPacked' = [NoRet EXCEPT !.op = "GetValue",
                            !.bytes = Pack(GetValue(r, build.in.key))]
    /\ UNCHANGED <<shared, universe, rPacked, phase, signedPacked, startPacked,
                   shPacked, wirePacked, rpos, build, sent>>

\* NewRecord(value, links, maskingKey, names, ordinals, cert, ts,
\* workAlgorithm, owner).  A record returned with an error is the incomplete
\* record of NewRecordStart.
CallNewRecord ==
    /\ phase = "Empty"
    /\ \E in \in NewInputs, workAlgorithm \in WorkAlgorithms, found \in BOOLEAN :
         LET res == NewRecord(in.value, in.links, in.key,
                        [i \in 1..Len(in.sels) |-> in.sels[i][1]],
                        [i \in 1..Len(in.sels) |-> in.sels[i][2]],
                        in.cert, in.ts, workAlgorithm, in.owner, found, signed)
         IN  /\ rPacked' = PackRecord(res.r)
             /\ signedPacked' = PackLog(res.log)
             /\ retPacked' = [NoRet EXCEPT !.op = "NewRecord", !.err = res.err,
                                     !.isNil = res.isNil]
             /\ phase' = IF res.err = "nil" THEN "Signed"
                         ELSE IF res.isNil THEN "Empty" ELSE "Started"
             /\ build' = [build EXCEPT !.in = [in EXCEPT !.value = Pack(@)],
                                       !.honestWork = found, !.ownOwner = TRUE]
    /\ UNCHANGED <<shared, universe, startPacked, shPacked, wirePacked, rpos, sent>>

NextBuild ==
    \/ StartValue
    \/ CallGetValue
    \/ CallNewRecord

SpecBuild == Init /\ [][NextBuild]_vars

\* ------------------------------------------------------------ identities
\* Records that differ in the order of their selectors are read from a
\* stream, and ID() is called on each.

\* The most selectors of a record in such a stream.
MaxIDSelectors == 2

\* Selectors as they are on the wire: two bytes of key and a claim.  The
\* first and the last have the same key.
IDSelectors == {<<1, 1, 9>>, <<1, 3, 9>>, <<2, 1, 8>>, <<1, 1, 7>>}

\* Records that differ in their selectors only, and one more record that
\* has no selectors.
IDRecords ==
    {[ForeignRecord EXCEPT !.Selectors = sels] :
        sels \in UNION {[1..n -> IDSelectors] : n \in 0..MaxIDSelectors}}
    \cup {ValueRecord(2)}

IDStreams ==
    {Concat([i \in 1..Len(recs) |-> MarshalFields(recs[i])]) :
        recs \in UNION {[1..n -> IDRecords] : n \in 1..MaxItems}}

InitID ==
    /\ universe = "decode"
    /\ rPacked = PackRecord(ZeroRecord)
    /\ phase = "Empty"
    /\ signedPacked = <<>>
    /\ startPacked = [workHash |-> <<>>, workBillableBytes |-> 0]
    /\ shPacked = <<>>
    /\ retPacked = NoRet
    /\ wirePacked \in {Pack(stream) : stream \in IDStreams}
    /\ rpos = 0
    /\ build = NoBuild
    /\ sent = NoSent
    /\ shared = NoShared

NextID ==
    \/ Unmarshal
    \/ CallID

\* One Record reading records and taking the ID of each.
SpecID == InitID /\ [][NextID]_vars

\* ------------------------------------------------------------ costs
\* RecordWharrgarblCost is called with byte counts from zero up, around
\* RecordMaxSize and on a grid in between.

\* How far the byte counts go up from zero and around RecordMaxSize.
MaxCostBytes == 60

\* The distance of the grid points.
CostStep == 997

CostInputs ==
    (0..MaxCostBytes)
    \cup ((RecordMaxSize - MaxCostBytes)..(RecordMaxSize + MaxCostBytes))
    \cup {k * CostStep : k \in 0..(RecordMaxSize \div CostStep)}

\* RecordWharrgarblCost(bytes)
CallCost ==
    /\ \E bytes \in CostInputs :
         retPacked' = [NoRet EXCEPT !.op = "RecordWharrgarblCost", !.at = bytes,
                                 !.n = RecordWharrgarblCost(bytes)]
    /\ UNCHANGED <<shared, universe, rPacked, phase, signedPacked, startPacked,
                   shPacked, wirePacked, rpos, build, sent>>

NextCost == CallCost

SpecCost == Init /\ [][NextCost]_vars

\* ------------------------------------------------------------ validation
\* Validate is called on the record the caller built, whatever work
\* algorithm byte it was given, while the code Validate calls may panic.

\* NewRecordDoWork (or a caller's own work) for any work algorithm byte,
\* then NewRecordAddWork.
AddWorkAny ==
    /\ phase = "Started"
    /\ sent.bytes = <<>>
    /\ \E workAlgorithm \in WorkAlgorithms, honest \in BOOLEAN :
         LET w == CallerWork(workAlgorithm, honest, signed)
             res == NewRecordAddWork(r, start.workHash, w.work, workAlgorithm)
         IN  /\ w.err = "nil"
             /\ rPacked' = PackRecord(res.r)
             /\ shPacked' = Pack(res.signingHash)
             /\ signedPacked' = PackLog(w.log)
             /\ build' = [build EXCEPT !.honestWork = honest]
             /\ retPacked' = [NoRet EXCEPT !.op = "NewRecordAddWork"]
    /\ phase' = "Worked"
    /\ UNCHANGED <<shared, universe, startPacked, wirePacked, rpos, sent>>

\* r.Validate() on the completed record; one of the calls it makes may panic.
ValidateBuilt ==
    /\ phase = "Signed"
    /\ \E fault \in Faults \cup {"none"} :
         retPacked' = [NoRet EXCEPT !.op = "Validate", !.fault = fault,
                                 !.err = ValidateRecovered(r, signed, fault)]
    /\ UNCHANGED <<shared, universe, rPacked, phase, signedPacked, startPacked,
                   shPacked, wirePacked, rpos, build, sent>>

NextValidate ==
    \/ Start
    \/ AddWorkAny
    \/ Complete
    \/ ValidateBuilt

SpecValidate == Init /\ [][NextValidate]_vars

\* ------------------------------------------------------------ versions
\* Streams that start with any first byte, followed by what follows the
\* version byte of a record, and then by one more record.

VersionBytes == 0..255

VersionStreams ==
    {<<b>> \o Drop(MarshalFields(rec), 1) \o MarshalFields(ForeignRecord) :
        b \in VersionBytes, rec \in {ForeignRecord, WorkedRecord}}

InitVersion ==
    /\ universe = "decode"
    /\ rPacked = PackRecord(ZeroRecord)
    /\ phase = "Empty"
    /\ signedPacked = <<>>
    /\ startPacked = [workHash |-> <<>>, workBillableBytes |-> 0]
    /\ shPacked = <<>>
    /\ retPacked = NoRet
    /\ wirePacked \in {Pack(stream) : stream \in VersionStreams}
    /\ rpos = 0
    /\ build = NoBuild
    /\ sent = NoSent
    /\ shared = NoShared

NextVersion ==
    \/ Unmarshal
    \/ CallBytes

\* One Record reading streams of any first byte, and asked for its bytes.
SpecVersion == InitVersion /\ [][NextVersion]_vars

\* ------------------------------------------------------------ validation order
\* Records that fail several checks of Validate at once: no owner or an
\* owner of an unknown type, a selector claim changed on the wire, work
\* below the cost or of an unknown algorithm, a signature by another owner.

\* Public bytes that NewOwnerFromBytes refuses.
OwnerUnknown == <<2, 5>>

OrderInputs ==
    [value : {<<104, 105>>}, links : {<<>>}, key : {<<107>>}, sels : SelectorLists,
     owner : {<<>>, OwnerA, OwnerUnknown}, cert : {<<>>}, ts : {1000000}]

\* NewRecordStart(value, links, maskingKey, names, ordinals, ownerPublic, ...)
\* with any of OrderInputs.
StartOrder ==
    /\ phase = "Empty"
    /\ \E in \in OrderInputs :
         LET res == NewRecordStart(in.value, in.links, in.key,
                        [i \in 1..Len(in.sels) |-> in.sels[i][1]],
                        [i \in 1..Len(in.sels) |-> in.sels[i][2]],
                        in.owner, in.cert, in.ts, signed)
         IN  /\ rPacked' = PackRecord(res.r)
             /\ signedPacked' = PackLog(res.log)
             /\ startPacked' = [workHash |-> Pack(res.workHash),
                                workBillableBytes |-> res.workBillableBytes]
             /\ retPacked' = [NoRet EXCEPT !.op = "NewRecordStart", !.err = res.err,
                                     !.isNil = res.isNil]
             /\ phase' = IF res.isNil THEN "Empty" ELSE "Started"
             /\ build' = [build EXCEPT !.in = in]
    /\ UNCHANGED <<shared, universe, shPacked, wirePacked, rpos, sent>>

\* The serialized form with the claim of selector i replaced by one that
\* was never made.
ForgeClaim(bytes, i) ==
    MarshalFields([Parsed(bytes).r EXCEPT !.Selectors[i][3] = 0])

\* Someone replaces the claim of one selector of the serialized record.
TamperClaim ==
    /\ Untouched
    /\ Parsed(wire).err = "nil"
    /\ \E i \in 1..Len(Parsed(wire).r.Selectors) :
         wirePacked' = Pack(ForgeClaim(wire, i))
    /\ sent' = [sent EXCEPT !.tamper = "claim"]
    /\ UNCHANGED <<shared, universe, rPacked, phase, signedPacked, startPacked,
                   shPacked, retPacked, rpos, build>>

NextOrder ==
    \/ StartOrder
    \/ AddWorkAny
    \/ Complete
    \/ CallMarshalTo
    \/ TamperClaim
    \/ FromBytes
    \/ CallValidate
    \/ ValidateBuilt

SpecOrder == Init /\ [][NextOrder]_vars

\* ------------------------------------------------------------ scores
\* RecordWharrgarblScore is called with costs from zero up, around the
\* threshold 0x0f7b0000, around 2^31 and up to 2^32 - 1, and Score() on
\* decoded records that state such difficulties.

\* How far the costs go up from zero and around the threshold.
MaxScoreLow == 40

\* The distance of the grid points of the high word.
ScoreStep == 1021

ScoreCosts ==
    {<<0, lo>> : lo \in 0..MaxScoreLow}
    \cup {<<0, 9999>>, <<0, 10000>>, <<0, 19999>>, <<0, 20000>>}
    \cup {<<3962, 65535 - lo>> : lo \in 0..MaxScoreLow}
    \cup {<<3963, lo>> : lo \in 0..MaxScoreLow}
    \cup {<<3964, 0>>, <<32767, 65535>>, <<32768, 0>>, <<65535, 65535>>}
    \cup {<<k * ScoreStep, lo>> : k \in 0..(65535 \div ScoreStep), lo \in {0, 9999, 65535}}

\* A decoded record with Wharrgarbl work that states the difficulty cost.
ScoredRecord(cost) ==
    [WorkedRecord EXCEPT
        !.Work = <<cost[1] \div 256, cost[1] % 256, cost[2] \div 256, cost[2] % 256>>
                 \o Rep(1, WharrgarblOutputSize - 4)]

ScoreRecords ==
    {ForeignRecord}
    \cup {ScoredRecord(cost) :
            cost \in {<<0, 0>>, <<0, 1>>, <<3963, 0>>, <<3963, 1>>, <<65535, 65535>>}}

InitScore ==
    /\ universe = "decode"
    /\ rPacked \in {PackRecord(rec) : rec \in ScoreRecords}
    /\ phase = "Decoded"
    /\ signedPacked = <<>>
    /\ startPacked = [workHash |-> <<>>, workBillableBytes |-> 0]
    /\ shPacked = <<>>
    /\ retPacked = NoRet
    /\ wirePacked = <<>>
    /\ rpos = 0
    /\ build = NoBuild
    /\ sent = NoSent
    /\ shared = NoShared

\* RecordWharrgarblScore(cost): the cost is kept as at (high word) and n
\* (low word), the score as the two words of bytes.
CallScoreOf ==
    /\ \E cost \in ScoreCosts :
         retPacked' = [NoRet EXCEPT !.op = "RecordWharrgarblScore", !.at = cost[1],
                                 !.n = cost[2],
                                 !.bytes = RecordWharrgarblScore(cost)]
    /\ UNCHANGED <<shared, universe, rPacked, phase, signedPacked, startPacked,
                   shPacked, wirePacked, rpos, build, sent>>

\* r.Score()
CallScore ==
    /\ phase = "Decoded"
    /\ retPacked' = [NoRet EXCEPT !.op = "Score", !.bytes = Score(r)]
    /\ UNCHANGED <<shared, universe, rPacked, phase, signedPacked, startPacked,
                   shPacked, wirePacked, rpos, build, sent>>

NextScore ==
    \/ CallScoreOf
    \/ CallScore

SpecScore == InitScore /\ [][NextScore]_vars

\* ------------------------------------------------------------ lengths
\* Records whose masked value length, owner length and link count are
\* varuints of any size, up to 2^64 - 1.

\* A link count of 2^59 + k as a varuint, for k below 128: 32 times the
\* count is 2^64 + 32 * k.
CountAbove59(k) == <<128 + k>> \o Rep(128, 7) \o <<8>>

\* The varuint of 2^64 - 1.
VarintMax64 == Rep(255, 9) \o <<1>>

\* The varuint of 2^35.
Varint35 == Rep(128, 5) \o <<1>>

\* A masked value on the wire: its length and its bytes.
ValueParts ==
    {<<0>>, <<2, 7, 7>>, writeUVarint(RecordMaxSize + 1) \o <<7, 7>>, Varint35 \o <<7, 7>>,
     VarintMax64}

\* An owner on the wire: its length and its bytes.
OwnerParts == {<<2, 1, 20>>, writeUVarint(RecordMaxSize + 1) \o <<1, 20>>, VarintMax64}

\* The links on the wire: their count and their bytes.
LinkParts ==
    {<<0>>, <<1>> \o LinkA, <<2>> \o LinkA \o LinkA,
     writeUVarint(RecordMaxSize \div 32 + 1) \o LinkA, Varint35 \o LinkA,
     CountAbove59(0), CountAbove59(1) \o LinkA, CountAbove59(2) \o LinkA \o LinkA,
     VarintMax64 \o LinkA}

\* A record without certificate, selectors, work and signature made of the
\* parts, with timestamp 5, and another record after it.
LengthStreams ==
    {<<0, 0>> \o vp \o op \o lp \o <<5, 0, 0, 0>> \o MarshalFields(ForeignRecord) :
        vp \in ValueParts, op \in OwnerParts, lp \in LinkParts}

InitLengths ==
    /\ universe = "decode"
    /\ rPacked = PackRecord(ZeroRecord)
    /\ phase = "Empty"
    /\ signedPacked = <<>>
    /\ startPacked = [workHash |-> <<>>, workBillableBytes |-> 0]
    /\ shPacked = <<>>
    /\ retPacked = NoRet
    /\ wirePacked \in {Pack(stream) : stream \in LengthStreams}
    /\ rpos = 0
    /\ build = NoBuild
    /\ sent = NoSent
    /\ shared = NoShared

NextLengths ==
    \/ Unmarshal
    \/ CallBytes

\* One Record reading records with length fields of any size.
SpecLengths == InitLengths /\ [][NextLengths]_vars

\* ------------------------------------------------------------ signing input
\* A record is built, serialized and has its body replaced on the wire by
\* another body, its selectors, work and signature left as they are.

\* A certificate record hash whose first byte is zero.
CertLow == <<0>> \o Rep(204, 31)

\* The link made of the last 31 bytes of CertLow and a zero byte.
LinkShifted == Rep(204, 31) \o <<0>>

SigningInputs ==
    [value : {<<104, 105>>}, links : {<<>>, <<LinkA>>, <<LinkShifted>>}, key : {<<107>>},
     sels : {Take(SelectorPool, n) : n \in 0..1}, owner : {OwnerA},
     cert : {<<>>, CertA, CertLow}, ts : {1000000}]

\* NewRecordStart(value, links, maskingKey, names, ordinals, ownerPublic, ...)
\* with any of SigningInputs.
StartSigning ==
    /\ phase = "Empty"
    /\ \E in \in SigningInputs :
         LET res == NewRecordStart(in.value, in.links, in.key,
                        [i \in 1..Len(in.sels) |-> in.sels[i][1]],
                        [i \in 1..Len(in.sels) |-> in.sels[i][2]],
                        in.owner, in.cert, in.ts, signed)
         IN  /\ rPacked' = PackRecord(res.r)
             /\ signedPacked' = PackLog(res.log)
             /\ startPacked' = [workHash |-> Pack(res.workHash),
                                workBillableBytes |-> res.workBillableBytes]
             /\ retPacked' = [NoRet EXCEPT !.op = "NewRecordStart", !.err = res.err,
                                     !.isNil = res.isNil]
             /\ phase' = IF res.isNil THEN "Empty" ELSE "Started"
             /\ build' = [build EXCEPT !.in = in]
    /\ UNCHANGED <<shared, universe, shPacked, wirePacked, rpos, sent>>

\* The bodies that differ from the body of rec in masked value, owner,
\* certificate, links or timestamp, and rec's own.
BodiesLike(rec) ==
    {[rec EXCEPT !.MaskedValue = v, !.Owner = o, !.Certificate = c, !.Links = l,
                 !.Timestamp = t] :
        v \in {rec.MaskedValue, <<1, 2, 3>>}, o \in {rec.Owner, OwnerB},
        c \in {<<>>, CertA, CertLow}, l \in {<<>>, LinkA, LinkShifted},
        t \in {rec.Timestamp, 5}}

\* The masked value, owner, certificate, links and timestamp of rec.
BodyOf(rec) == <<rec.MaskedValue, rec.Owner, rec.Certificate, rec.Links, rec.Timestamp>>

\* Someone replaces the body of the serialized, completed record by a
\* different body.
TamperBody ==
    /\ Untouched
    /\ sent.phase = "Signed"
    /\ Parsed(wire).err = "nil"
    /\ \E other \in BodiesLike(Parsed(wire).r) :
         /\ BodyOf(other) # BodyOf(Parsed(wire).r)
         /\ wirePacked' = Pack(MarshalFields(other))
    /\ sent' = [sent EXCEPT !.tamper = "body"]
    /\ UNCHANGED <<shared, universe, rPacked, phase, signedPacked, startPacked,
                   shPacked, retPacked, rpos, build>>

NextSigning ==
    \/ StartSigning
    \/ AddWork
    \/ Complete
    \/ CallMarshalTo
    \/ TamperBody
    \/ FromBytes
    \/ CallValidate

SpecSigning == Init /\ [][NextSigning]_vars

\* ------------------------------------------------------------ properties

\* Links a multiple of 32 bytes, the certificate absent or 32 bytes, the
\* work as long as the work algorithm says.
WellFormed(rec) ==
    /\ Len(rec.Links) % 32 = 0
    /\ Len(rec.Certificate) \in {0, 32}
    /\ Len(rec.Work) = IF rec.WorkAlgorithm = RecordWorkAlgorithmWharrgarbl
                       THEN WharrgarblOutputSize ELSE 0

\* What MarshalTo wrote is a record that Validate accepts.
ValidSent ==
    /\ sent.bytes # <<>>
    /\ Parsed(sent.bytes).err = "nil"
    /\ Validate(Parsed(sent.bytes).r, signed) = "nil"

\* The bytes were decoded as written, and Validate has returned.
Validated(tamper) == ret.op = "Validate" /\ sent.tamper = tamper /\ sent.decoded = "nil"

\* C1 (as stated): the bytes MarshalTo wrote for a well-formed record decode
\* without error into a new Record whose fields are those of the record, and
\* which serializes to the same bytes.
C1_RoundTrip ==
    (sent.decoded # "no" /\ sent.tamper = "none" /\ WellFormed(sent.of))
    => /\ sent.decoded = "nil"
       /\ Fields(r) = sent.of
       /\ MarshalFields(r) = sent.bytes

\* C2: a record built by NewRecordStart, NewRecordAddWork with the work
\* NewRecordDoWork found (or with algorithm None) and NewRecordComplete with
\* the owner given to NewRecordStart, with no call of Bytes() on the
\* incomplete record between them, then serialized and decoded, is accepted
\* by Validate.
C2_CreateVerify ==
    (/\ Validated("none")
     /\ sent.phase = "Signed"
     /\ build.honestWork
     /\ build.ownOwner
     /\ ~build.cachedAtComplete)
    => ret.err = "nil"

\* A record with a value, two selectors or more and Wharrgarbl work was
\* built, serialized, decoded and accepted.
C2_Witness ==
    /\ Validated("none")
    /\ ret.err = "nil"
    /\ Len(r.MaskedValue) > 0
    /\ Len(r.Selectors) >= 2
    /\ r.WorkAlgorithm = RecordWorkAlgorithmWharrgarbl

\* C3: exchanging two distinct selectors of a valid record makes Validate
\* return the selector-claim-check-failed error.
C3_SelectorSwap ==
    (Validated("swap") /\ ValidSent) => ret.err = "ErrorRecordSelectorClaimCheckFailed"

\* A valid record with Wharrgarbl work had two selectors exchanged and was
\* refused for its selector claims.
C3_Witness ==
    /\ Validated("swap")
    /\ ValidSent
    /\ r.WorkAlgorithm = RecordWorkAlgorithmWharrgarbl
    /\ ret.err = "ErrorRecordSelectorClaimCheckFailed"

\* C4 (amended): changing one byte of the masked value of a valid record
\* makes Validate fail: with the selector claim error if the record has
\* selectors, else with insufficient work if it carries Wharrgarbl work,
\* else with the owner signature error.
C4_TamperValue ==
    (Validated("value") /\ ValidSent)
    => ret.err = IF Len(r.Selectors) > 0 THEN "ErrorRecordSelectorClaimCheckFailed"
                 ELSE IF r.WorkAlgorithm = RecordWorkAlgorithmWharrgarbl
                 THEN "ErrorRecordInsufficientWork"
                 ELSE "ErrorRecordOwnerSignatureCheckFailed"

\* A valid record without selectors and with Wharrgarbl work had a byte of
\* its masked value changed and was refused for its work.
C4_Witness ==
    /\ Validated("value")
    /\ ValidSent
    /\ Len(r.Selectors) = 0
    /\ ret.err = "ErrorRecordInsufficientWork"

\* C4 (as stated): changing one byte of the masked value of a valid record
\* makes Validate return the owner signature error.
C4_AsStated ==
    (Validated("value") /\ ValidSent) => ret.err = "ErrorRecordOwnerSignatureCheckFailed"

\* C5: a valid Wharrgarbl record whose work algorithm byte was set to 0x00,
\* with or without its work bytes removed, is not accepted: decoding fails,
\* or Validate returns insufficient work or the owner signature error.
C5_StripWork ==
    (Validated("strip") /\ ValidSent)
    => ret.err \in {"ErrorRecordInsufficientWork", "ErrorRecordOwnerSignatureCheckFailed"}

\* A valid Wharrgarbl record with selectors had its work algorithm byte
\* cleared, its work bytes left in place, and was refused by Validate.
C5_Witness ==
    /\ Validated("strip")
    /\ ValidSent
    /\ Len(r.Selectors) > 0
    /\ Len(wire) = Len(sent.bytes)
    /\ ret.err = "ErrorRecordOwnerSignatureCheckFailed"

\* C6 (as stated): NewRecordComplete returns a record only if the
\* serialization of its fields, signature attached, is no longer than
\* RecordMaxSize, whatever calls of Bytes(), SizeBytes() or Hash() were made
\* on the incomplete record.
C6_SizeBound == phase = "Signed" => Len(MarshalFields(r)) <= RecordMaxSize

\* C7 (as stated): a record that UnmarshalFrom decodes without error is no
\* longer than RecordMaxSize, from its version byte to its last signature
\* byte.
C7_DecoderSizeBound ==
    (ret.op = "UnmarshalFrom" /\ ret.err = "nil") => ret.n <= RecordMaxSize

\* UnmarshalFrom has just read a dead record that is whole in the reader:
\* 0xff, its length, and for a length of 5 or more the rest of its bytes.
ReadDead ==
    /\ ret.op = "UnmarshalFrom"
    /\ ret.at + 5 <= Len(wire)
    /\ wire[ret.at + 1] = 255
    /\ LET deadLen == Uint32(SubSeq(wire, ret.at + 2, ret.at + 5)) IN
       deadLen >= 5 => ret.at + deadLen <= Len(wire)

\* The length the dead record just read gives.
DeadLen == Uint32(SubSeq(wire, ret.at + 2, ret.at + 5))

\* C8 (amended): on a dead record of length L UnmarshalFrom returns
\* ErrorRecordMarkedIgnore and has consumed L bytes if L is 5 or more, and
\* the 5 bytes of the mark if L is less than 5; the next read starts there.
C8_Tombstone ==
    ReadDead
    => /\ ret.err = "ErrorRecordMarkedIgnore"
       /\ ret.n = IF DeadLen >= 5 THEN DeadLen ELSE 5
       /\ rpos = ret.at + ret.n

\* The longest dead record was read and skipped, and another record follows.
C8_Witness ==
    /\ ReadDead
    /\ ret.err = "ErrorRecordMarkedIgnore"
    /\ ret.n = MaxDead
    /\ rpos < Len(wire)

\* C8 (as stated): on a dead record of length L UnmarshalFrom returns
\* ErrorRecordMarkedIgnore and has consumed exactly L bytes, for every L.
C8_AsStated ==
    ReadDead => (ret.err = "ErrorRecordMarkedIgnore" /\ ret.n = DeadLen)

\* C9 (as stated): cached data is the serialization of the record's fields,
\* a cached hash is the hash of that serialization and a cached id is the id
\* of the selectors.
C9_CacheCoherence ==
    /\ Len(r.data) > 0 => r.data = MarshalFields(r)
    /\ r.hash # <<>> => r.hash = Shandwich256(MarshalFields(r))
    /\ r.id # <<>> => r.id = ID(Fields(r)).id

\* What a call on the Record returns when one thread makes it.
Expected(call) ==
    IF call = "Bytes" THEN MarshalFields(r)
    ELSE IF call = "Hash" THEN Shandwich256(MarshalFields(r))
    ELSE IDValue(Fields(r))

\* C10 (as stated): every call of Bytes(), Hash() or ID() that a thread has
\* completed on the shared Record returned what a single-threaded call
\* returns.
C10_SharedCalls ==
    \A t \in Threads :
        (shared.threads[t].pc = "idle" /\ shared.threads[t].call # "none")
        => shared.threads[t].result = Expected(shared.threads[t].call)

\* C11: when NewRecord fails (Wharrgarbl found nothing, the work algorithm
\* is unsupported) or NewRecordStart rejects its input, the error comes with
\* a nil record.
C11_NoPartialRecord ==
    (ret.op \in {"NewRecord", "NewRecordStart"} /\ ret.err # "nil") => ret.isNil

\* The database keys of the selectors of rec, in the order of the selectors.
KeysOf(rec) == [i \in 1..Len(rec.Selectors) |-> SelectorKey(rec.Selectors[i])]

\* How often k is among ks.
Count(ks, k) == Cardinality({i \in 1..Len(ks) : ks[i] = k})

\* ks in ascending order: the one arrangement of the same keys, each as
\* often as in ks, in which no key is followed by a smaller one.  It is the
\* same for all orders of the same keys.
Ascending(ks) ==
    CHOOSE p \in [1..Len(ks) -> {ks[i] : i \in 1..Len(ks)}] :
        /\ \A i \in 1..Len(ks) : Count(p, ks[i]) = Count(ks, ks[i])
        /\ \A i \in 1..(Len(ks) - 1) : ~BytesLess(p[i + 1], p[i])

\* C12 (amended): the ID of a decoded record with at least one selector is
\* the hash of its selector keys in ascending order, whatever the order of
\* the selectors, so that records with the same keys have the same ID; the
\* ID of a record without selectors is its hash.
C12_Identity ==
    ret.op = "ID" =>
        ret.bytes = IF Len(r.Selectors) = 0
                    THEN Shandwich256(MarshalFields(r))
                    ELSE Shandwich256(Concat(Ascending(KeysOf(r))))

\* ID() was called on a record whose two selectors have different keys, the
\* larger key first, that was read after another record.
C12_Witness ==
    /\ ret.op = "ID"
    /\ Len(r.Selectors) = 2
    /\ BytesLess(SelectorKey(r.Selectors[2]), SelectorKey(r.Selectors[1]))
    /\ rpos = Len(wire)
    /\ rpos > Len(MarshalFields(r))
    /\ ret.bytes = Shandwich256(SelectorKey(r.Selectors[2]) \o SelectorKey(r.Selectors[1]))

\* C12 (as stated): every record whose selectors have the same keys, each as
\* often, as the record ID() was called on has the ID that was returned,
\* and the ID of a record without selectors is its hash.
C12_AsStated ==
    ret.op = "ID" =>
        /\ \A other \in IDRecords :
             (/\ Len(other.Selectors) = Len(r.Selectors)
              /\ \A i \in 1..Len(r.Selectors) :
                   Count(KeysOf(other), KeysOf(r)[i]) = Count(KeysOf(r), KeysOf(r)[i]))
             => IDValue(other) = ret.bytes
        /\ Len(r.Selectors) = 0 => ret.bytes = Shandwich256(MarshalFields(r))
\* C13: of two calls of RecordWharrgarblCost with byte counts of at least 4,
\* the call with the larger count returns a cost that is not smaller; counts
\* above RecordMaxSize included.
C13_CostMonotone ==
    [][(/\ ret.op = "RecordWharrgarblCost"
        /\ ret'.op = "RecordWharrgarblCost"
        /\ 4 <= ret.at
        /\ ret.at < ret'.at) => ret.n <= ret'.n]_vars

\* The cost of a byte count above RecordMaxSize was computed: it is the cost
\* of RecordMaxSize bytes.
C13_Witness ==
    /\ ret.op = "RecordWharrgarblCost"
    /\ ret.at > RecordMaxSize
    /\ ret.n = RecordWharrgarblCost(RecordMaxSize)
    /\ ret.n > RecordMaxSize

\* C14: when a call that Validate makes panics, Validate returns normally
\* with an error: the panic is not passed on and nil is not returned.
C14_PanicCaught ==
    (ret.op = "Validate" /\ ValidateReaches(r, signed, ret.fault))
    => ret.err \notin {"nil", "panic"}

\* The owner's signature check panicked on a record that is otherwise valid,
\* and Validate returned the error of its deferred function.
C14_Witness ==
    /\ ret.op = "Validate"
    /\ ret.fault = "Verify"
    /\ Validate(r, signed) = "nil"
    /\ Len(r.Selectors) > 0
    /\ ret.err = "caught panic validating record"

\* C15: Validate rejects a record whose work algorithm is neither None nor
\* Wharrgarbl with the error for an unsupported algorithm, the one the
\* decoder returns, and not with the error for insufficient work.
C15_UnsupportedAlgorithm ==
    (/\ ret.op = "Validate"
     /\ ret.fault = "none"
     /\ r.WorkAlgorithm \notin {RecordWorkAlgorithmNone, RecordWorkAlgorithmWharrgarbl})
    => ret.err = "ErrorRecordUnsupportedAlgorithm"

\* The serialized selectors of rec, one after the other.
SelectorsBytes(rec) ==
    Concat([i \in 1..Len(rec.Selectors) |-> SelectorBytes(rec.Selectors[i])])

\* The serialized size of the body plus the serialized sizes of the selectors.
BillableBytes(rec) == Len(marshalTo(rec)) + Len(SelectorsBytes(rec))

\* The difficulty verified for the work of rec against its work hash,
\* computed anew from the body and the selectors.
Achieved(rec, log) ==
    WharrgarblVerify(rec.Work, Sha3(signingHash(rec) \o SelectorsBytes(rec)), log)

\* Every selector claim of rec verifies.
ClaimsVerify(rec, log) ==
    ValidateSelectors(rec, log, 1, signingHash(rec), signingHash(rec), 0).ok

\* C16 (amended): Validate returns nil for a Wharrgarbl record only if the
\* verified difficulty of its work is at least the cost of its billable
\* bytes; when the difficulty is lower, Validate returns the insufficient
\* work error unless the owner is empty or a selector claim fails, which are
\* checked first and return their own errors.
C16_WorkSufficiency ==
    (ret.op = "Validate" /\ r.WorkAlgorithm = RecordWorkAlgorithmWharrgarbl) =>
        /\ ret.err = "nil"
             => Achieved(r, signed) >= RecordWharrgarblCost(BillableBytes(r))
        /\ Achieved(r, signed) < RecordWharrgarblCost(BillableBytes(r))
             => ret.err = IF Len(r.Owner) = 0
                          THEN "ErrorRecordOwnerSignatureCheckFailed"
                          ELSE IF ~ClaimsVerify(r, signed)
                          THEN "ErrorRecordSelectorClaimCheckFailed"
                          ELSE "ErrorRecordInsufficientWork"

\* Validate refused a record with selectors, built and signed as it should
\* be but for work of a difficulty one below the cost.
C16_Witness ==
    /\ Validated("none")
    /\ r.WorkAlgorithm = RecordWorkAlgorithmWharrgarbl
    /\ Len(r.Selectors) > 0
    /\ ClaimsVerify(r, signed)
    /\ Achieved(r, signed) = RecordWharrgarblCost(BillableBytes(r)) - 1
    /\ ret.err = "ErrorRecordInsufficientWork"

\* C16 (as stated): Validate returns nil for a Wharrgarbl record only if the
\* verified difficulty of its work is at least the cost of its billable
\* bytes, and otherwise returns the insufficient work error.
C16_AsStated ==
    (ret.op = "Validate" /\ r.WorkAlgorithm = RecordWorkAlgorithmWharrgarbl) =>
        IF Achieved(r, signed) >= RecordWharrgarblCost(BillableBytes(r))
        THEN TRUE
        ELSE ret.err = "ErrorRecordInsufficientWork"

\* The value NewRecordStart was called with.
ValueIn == Unpack(build.in.value)

\* What NewRecordStart stored: the masked value of the record, unmasked
\* with the masking key, the timestamp and the owner it was started with.
StoredValue ==
    CFBDecrypt(maskingKeyH(build.in.key), cfbIv(build.in.ts, build.in.owner),
               r.MaskedValue)

\* NewRecordStart has returned a record for a value that is not empty.
StartedWithValue ==
    /\ ret.op = "NewRecordStart"
    /\ ret.err = "nil"
    /\ Len(ValueIn) > 0

\* C17: NewRecordStart stores the compressed value behind flag byte 0x01
\* only if the value has at least 16 bytes and the compressed value with its
\* flag byte is shorter than the value; else the value itself behind flag
\* byte 0x00.
C17_CompressionPolicy ==
    StartedWithValue =>
        StoredValue = IF /\ Len(ValueIn) >= 16
                    /\ Len(lzwCompress(ValueIn)) + 1 < Len(ValueIn)
                 THEN <<1>> \o lzwCompress(ValueIn)
                 ELSE <<0>> \o ValueIn

\* C18: GetValue with the masking key the record was started with returns
\* the value the record was started with, compressed or not, empty or not.
C18_ValueRoundTrip == ret.op = "GetValue" => ret.bytes = ValueIn

\* GetValue returned the sixteen bytes of a value that is stored compressed.
C18_Witness ==
    /\ ret.op = "GetValue"
    /\ ValueIn = ValueRun
    /\ Len(r.MaskedValue) < Len(ValueIn)
    /\ ret.bytes = ValueRun

\* The IV of the masking: the timestamp, then the first 8 bytes of the
\* owner, an owner of fewer bytes followed by zeros.
PaddedIv(ts, ownerPublic) == PutUint64(ts) \o Take(ownerPublic \o Rep(0, 8), 8)

\* C19: the value is masked with the IV made of the timestamp and the first
\* 8 bytes of the owner, an owner shorter than 8 bytes padded with zeros.
C19_MaskingIv ==
    StartedWithValue =>
        r.MaskedValue = CFBEncrypt(maskingKeyH(build.in.key),
                                   PaddedIv(build.in.ts, build.in.owner),
                                   valueFlagged(ValueIn))

\* The link count marshalTo writes for rec.
LinkCountWritten(rec) == IF Len(rec.Links) >= 32 THEN Len(rec.Links) \div 32 ELSE 0

\* C20: the Links of a record that NewRecordStart, NewRecord or a decode
\* returned are a multiple of 32 bytes long, and the link count that
\* marshalTo writes, times 32, is the number of link bytes the signing hash
\* covers.
C20_LinkShape ==
    (ret.op \in {"NewRecordStart", "NewRecord", "UnmarshalFrom"} /\ ret.err = "nil")
    => /\ Len(r.Links) % 32 = 0
       /\ LinkCountWritten(r) * 32 = Len(r.Links)

\* C21: the decoder returns no error only for a first byte of 0x00, the
\* marked-ignore error only for a first byte of 0xff and ErrorRecordInvalid
\* for every other first byte; what Bytes() returns and what MarshalTo
\* writes for the Record, in whatever state the decoder left it, starts
\* with 0x00.
C21_VersionByte ==
    /\ ret.op = "UnmarshalFrom" =>
         /\ ret.err = "nil" => wire[ret.at + 1] = 0
         /\ ret.err = "ErrorRecordMarkedIgnore" => wire[ret.at + 1] = 255
         /\ wire[ret.at + 1] \notin {0, 255} => ret.err = "ErrorRecordInvalid"
    /\ ret.op = "Bytes" => ret.bytes[1] = 0
    /\ MarshalTo(r)[1] = 0

\* The decoder refused a stream for its first byte 0xfe after that byte,
\* and Bytes() was then called on the Record.
C21_Witness ==
    /\ ret.op = "Bytes"
    /\ phase = "Failed"
    /\ wire[1] = 254
    /\ rpos = 1
    /\ ret.bytes[1] = 0

RECURSIVE ChainAt(_, _)
\* The chained hash the claim of selector i of rec is made against: the
\* body signing hash, chained with the bytes of the selectors before i.
ChainAt(rec, i) ==
    IF i = 1 THEN signingHash(rec)
    ELSE Sha3(ChainAt(rec, i - 1) \o SelectorBytes(rec.Selectors[i - 1]))

\* The selectors of rec whose claim does not verify.
BadClaims(rec, log) ==
    {i \in 1..Len(rec.Selectors) :
        ~SelectorVerifyClaim(rec.Selectors[i], ChainAt(rec, i), log)}

\* The work of rec is what its algorithm asks for.
WorkPasses(rec, log) ==
    \/ rec.WorkAlgorithm = RecordWorkAlgorithmNone
    \/ /\ rec.WorkAlgorithm = RecordWorkAlgorithmWharrgarbl
       /\ Achieved(rec, log) >= RecordWharrgarblCost(BillableBytes(rec))

\* The signature of rec is the owner's, over the work hash, the work and
\* the work algorithm.
SignaturePasses(rec, log) ==
    /\ NewOwnerFromBytes(rec.Owner) = "nil"
    /\ OwnerVerify(rec.Owner,
                   Sha3(Sha3(signingHash(rec) \o SelectorsBytes(rec)) \o rec.Work
                        \o <<rec.WorkAlgorithm>>),
                   rec.Signature, log)

\* C22: Validate returns the error of the first check that fails, in the
\* order owner bytes not empty, selector claims, work, owner signature: a
\* failed selector claim is reported whatever the work and the signature
\* are, and a failed signature only if the claims and the work passed.
C22_ValidationOrder ==
    (ret.op = "Validate" /\ ret.fault = "none") =>
        ret.err = IF Len(r.Owner) = 0 THEN "ErrorRecordOwnerSignatureCheckFailed"
                  ELSE IF BadClaims(r, signed) # {}
                  THEN "ErrorRecordSelectorClaimCheckFailed"
                  ELSE IF ~WorkPasses(r, signed) THEN "ErrorRecordInsufficientWork"
                  ELSE IF ~SignaturePasses(r, signed)
                  THEN "ErrorRecordOwnerSignatureCheckFailed"
                  ELSE "nil"

\* Validate reported the failed claim of the second selector of a record
\* whose first claim verifies and whose work and signature are invalid too.
C22_Witness ==
    /\ ret.op = "Validate"
    /\ ret.fault = "none"
    /\ Len(r.Owner) > 0
    /\ BadClaims(r, signed) = {2}
    /\ ~WorkPasses(r, signed)
    /\ ~SignaturePasses(r, signed)
    /\ ret.err = "ErrorRecordSelectorClaimCheckFailed"

\* C23: RecordWharrgarblCost(n) is n + 1 for n < 4; from 4 on it is
\* isqrt_round(3m) * 3m * 3 - 3m * 8 with m the smaller of n and
\* RecordMaxSize, where the subtraction does not go below zero, 3m and the
\* product stay within 32 bits, and the result is at most 0x0f7b0000
\* (259719168), which it is from RecordMaxSize on.
C23_CostCurve ==
    ret.op = "RecordWharrgarblCost" =>
        LET b == 3 * Min(ret.at, RecordMaxSize)
            product == integerSqrtRounded(b) * b * 3
        IN  IF ret.at < 4 THEN ret.n = ret.at + 1
            ELSE /\ b \div 65536 < 65536
                 /\ product \div 65536 < 65536
                 /\ product >= b * 8
                 /\ ret.n = product - b * 8
                 /\ ret.n <= 259719168
                 /\ ret.at >= RecordMaxSize => ret.n = 259719168

\* The cost of 4 bytes was computed, the smallest count the curve is used
\* for: 3 * 12 * 3 - 12 * 8.
C23_Witness ==
    /\ ret.op = "RecordWharrgarblCost"
    /\ ret.at = 4
    /\ integerSqrtRounded(12) = 3
    /\ ret.n = 12

\* C24: RecordWharrgarblScore does not decrease as the cost grows, over
\* costs up to 2^32 - 1; for a cost up to the threshold 0x0f7b0000 the sum
\* cost * 16 + (cost / 10000) * 5369 stays within 32 bits; the threshold is
\* RecordWharrgarblCost(RecordMaxSize); every score lies in 1..0xffffa8db;
\* and Score() of a record with algorithm None or Wharrgarbl is at least 1.
C24_ScoreScaling ==
    [][/\ ret'.op = "RecordWharrgarblScore" =>
            /\ ~Less32(ret'.bytes, <<0, 1>>)
            /\ ~Less32(<<65535, 43227>>, ret'.bytes)
            /\ ~Less32(<<3963, 0>>, <<ret'.at, ret'.n>>)
                 => ScoreHigh(<<ret'.at, ret'.n>>) < 65536
            /\ (ret.op = "RecordWharrgarblScore"
                /\ Less32(<<ret.at, ret.n>>, <<ret'.at, ret'.n>>))
                 => ~Less32(ret'.bytes, ret.bytes)
       /\ (/\ ret'.op = "Score"
           /\ r'.WorkAlgorithm \in {RecordWorkAlgorithmNone,
                                    RecordWorkAlgorithmWharrgarbl})
            => ~Less32(ret'.bytes, <<0, 1>>)
       /\ (ret'.op = "RecordWharrgarblScore" /\ ret'.at = 3963 /\ ret'.n = 0)
            => RecordWharrgarblCost(RecordMaxSize) = ret'.at * 65536 + ret'.n]_vars

\* The score of the threshold cost was computed: the sum comes to
\* 0xffffa8db, the score of every cost above the threshold.
C24_Witness ==
    /\ ret.op = "RecordWharrgarblScore"
    /\ ret.at = 3963
    /\ ret.n = 0
    /\ ScoreHigh(<<3963, 0>>) = 65535
    /\ ret.bytes = <<65535, 43227>>

\* The masked value length of the first record of the reader.
WireValueLength == ReadUvarint(wire, 2)

\* The owner length of the first record of the reader, when the masked
\* value length is within RecordMaxSize.
WireOwnerLength == ReadUvarint(wire, WireValueLength.pos + WireValueLength.v)

\* The link count of the first record of the reader (which has no
\* certificate), when the lengths before it are within RecordMaxSize.
WireLinkCount == ReadUvarint(wire, WireOwnerLength.pos + WireOwnerLength.v)

\* count * 32 > RecordMaxSize, in the integers.
LinksExceed(count) == count.m > 0 \/ count.h > 0 \/ count.v * 32 > RecordMaxSize

\* C25: the decoder returns ErrorRecordInvalid for a masked value length or
\* an owner length above RecordMaxSize and for a link count whose 32-fold
\* is above RecordMaxSize, counts of 2^59 and more included; the links of a
\* body that was decoded without error are as many as the link count on the
\* wire says.
C25_LengthsBounded ==
    (ret.op = "UnmarshalFrom" /\ ret.at = 0 /\ wire[1] = 0) =>
        IF Exceeds(WireValueLength, RecordMaxSize) THEN ret.err = "ErrorRecordInvalid"
        ELSE IF Exceeds(WireOwnerLength, RecordMaxSize) THEN ret.err = "ErrorRecordInvalid"
        ELSE IF LinksExceed(WireLinkCount) THEN ret.err = "ErrorRecordInvalid"
        ELSE ret.err = "nil" => Len(r.Links) = WireLinkCount.v * 32

\* C26: in every Record that NewRecordStart, NewRecordAddWork,
\* NewRecordComplete and UnmarshalFrom leave behind, Work is empty when the
\* work algorithm is None and WharrgarblOutputSize bytes long when it is
\* Wharrgarbl; and a Record that was decoded without error is the Record
\* that a new Record decoded from the same bytes is.
C26_WorkLength ==
    /\ r.WorkAlgorithm = RecordWorkAlgorithmNone => Len(r.Work) = 0
    /\ r.WorkAlgorithm = RecordWorkAlgorithmWharrgarbl => Len(r.Work) = WharrgarblOutputSize
    /\ (ret.op = "UnmarshalFrom" /\ ret.err = "nil")
         => Fields(r) = Fields(UnmarshalFrom(ZeroRecord, wire, ret.at).r)

\* C27: a body that differs from the body of the Record in masked value,
\* owner, certificate, links or timestamp has another signing hash (the
\* hash being injective, it is fed other bytes), a body with a certificate
\* and no links against a body with one link and no certificate included;
\* and a valid record whose body was replaced by a different body is not
\* accepted by Validate.
C27_UnambiguousSigning ==
    /\ \A other \in BodiesLike(r) :
         BodyOf(other) # BodyOf(r) => signingHash(other) # signingHash(r)
    /\ (Validated("body") /\ ValidSent) => ret.err # "nil"

====
